---- MODULE Spec2Model ----
(***************************************************************************)
(* Vecburner: a model of the raster-to-vector pipeline.                    *)
(*                                                                         *)
(* Colours are triples <<r, g, b>>, pixels are quadruples <<r, g, b, a>>,  *)
(* arrays are 1-based sequences (index i here is index i-1 in the source). *)
(***************************************************************************)
EXTENDS Integers, Sequences, FiniteSets, TLC

VARIABLES
    pc,              \* position in kMeansQuantize / vectorize
    presetName,      \* argument of vectorizeWithPreset
    options,         \* the option bundle vectorize runs with
    image,           \* workingData: [width, height, data]
    weightedColors,  \* kMeansQuantize: sorted [color, weight] records
    centers,         \* kMeansQuantize: cluster centres
    palette,         \* vectorize: palette (kMeansQuantize's return value)
    currentPalette,  \* vectorize: palette under merge
    changed,         \* vectorize: merge loop flag
    aliased,         \* currentPalette is still the very array palette
    pixelColorMap,   \* vectorize: palette index per pixel, 255 = transparent
    otsuThreshold,   \* vectorize: luminance threshold of the binary mode
    colorIdx,        \* vectorize: index of the layer loop (0-based)
    layers,          \* vectorize: layers pushed so far
    result,          \* vectorize: the returned object, NoResult before
    fitCurveFn,      \* whether the global fitCurve of the CDN library exists
    libsLoaded,      \* utils.js: the module-level flag of loadCdnLibs
    scripts,         \* the script element of each CDN url and its state
    calls,           \* the calls of loadCdnLibs: where each one is
    fitCalls,        \* vectorize: the fit functions called in the last layer
    input,           \* the arguments of a function called on its own
    output           \* and what it returned

vars == <<pc, presetName, options, image, weightedColors, centers, palette,
          currentPalette, changed, aliased, pixelColorMap, otsuThreshold,
          colorIdx, layers, result, fitCurveFn, libsLoaded, scripts, calls, fitCalls, input, output>>

-----------------------------------------------------------------------------
(* utils.js: the CDN libraries *)

\* Object.values(CDN_LIBS), by the name of the library
CDN_LIBS == <<"simplify", "fitCurve">>

CdnUrls == {CDN_LIBS[k] : k \in DOMAIN CDN_LIBS}

\* the calls of loadCdnLibs that are followed
MaxCalls == 3

\* no script element in the document, no call made
CdnIdle ==
    /\ libsLoaded = FALSE
    /\ scripts = [u \in CdnUrls |-> "absent"]
    /\ calls = [c \in 1..MaxCalls |->
                   [at |-> "idle", pending |-> {}, rejected |-> FALSE]]

-----------------------------------------------------------------------------
(* Bounds of the model *)

\* kMeansQuantize called on its own: pixels per image, largest target count
MaxPixels == 4
MaxK == 3

(* Program constants *)
MAX_SAMPLES == 500000
KMeansMaxIterations == 10
KMeansMergeThreshold == 400

-----------------------------------------------------------------------------
(* Arithmetic helpers *)

Min2(a, b) == IF a < b THEN a ELSE b
Max2(a, b) == IF a > b THEN a ELSE b
Abs(a) == IF a < 0 THEN -a ELSE a

\* the sum of s[lo..hi], by halving
RECURSIVE SumRange(_, _, _)
SumRange(s, lo, hi) ==
    IF lo > hi THEN 0
    ELSE IF lo = hi THEN s[lo]
    ELSE LET mid == (lo + hi) \div 2
         IN  SumRange(s, lo, mid) + SumRange(s, mid + 1, hi)

SumSeq(s) == SumRange(s, 1, Len(s))

RECURSIVE Flatten(_, _, _)
Flatten(segs, lo, hi) ==
    IF lo > hi THEN <<>>
    ELSE IF lo = hi THEN segs[lo]
    ELSE LET mid == (lo + hi) \div 2
         IN  Flatten(segs, lo, mid) \o Flatten(segs, mid + 1, hi)

\* Math.round(n / d) for n >= 0, d > 0: halves round up
RoundDiv(n, d) == (2 * n + d) \div (2 * d)

\* Math.ceil(n / d) for n >= 0, d > 0
CeilDiv(n, d) == (n + d - 1) \div d

RECURSIVE Gcd(_, _)
Gcd(a, b) == IF b = 0 THEN a ELSE Gcd(b, a % b)

\* n1 / d1 < n2 / d2 for naturals with d1, d2 > 0, by Euclid's algorithm, so
\* that no product of two large numbers is ever formed
RECURSIVE LessFrac(_, _, _, _)
LessFrac(n1, d1, n2, d2) ==
    LET q1 == n1 \div d1
        q2 == n2 \div d2
        r1 == n1 % d1
        r2 == n2 % d2
    IN  IF q1 # q2 THEN q1 < q2
        ELSE IF r2 = 0 THEN FALSE
        ELSE IF r1 = 0 THEN TRUE
        ELSE LessFrac(d2, r2, d1, r1)

\* a * b < c * d for naturals
ProdLess(a, b, c, d) ==
    IF c = 0 \/ d = 0 THEN FALSE
    ELSE IF a = 0 \/ b = 0 THEN TRUE
    ELSE LessFrac(a, d, c, b)

\* naturals beyond 32 bits, as little-endian sequences of limbs below LimbBase
LimbBase == 32 * 1024

RECURSIVE ToLimbs(_)
ToLimbs(n) == IF n = 0 THEN <<>> ELSE <<n % LimbBase>> \o ToLimbs(n \div LimbBase)

\* limbs of x * m + carry, for 0 <= m < LimbBase
RECURSIVE MulSmall(_, _, _)
MulSmall(x, m, carry) ==
    IF x = <<>> THEN ToLimbs(carry)
    ELSE LET v == Head(x) * m + carry
         IN  <<v % LimbBase>> \o MulSmall(Tail(x), m, v \div LimbBase)

RECURSIVE AddLimbs(_, _, _)
AddLimbs(x, y, carry) ==
    IF x = <<>> /\ y = <<>> THEN ToLimbs(carry)
    ELSE LET a == IF x = <<>> THEN 0 ELSE Head(x)
             b == IF y = <<>> THEN 0 ELSE Head(y)
             v == a + b + carry
         IN  <<v % LimbBase>>
             \o AddLimbs(IF x = <<>> THEN x ELSE Tail(x),
                         IF y = <<>> THEN y ELSE Tail(y), v \div LimbBase)

RECURSIVE MulLimbs(_, _)
MulLimbs(x, y) ==
    IF y = <<>> THEN <<>>
    ELSE AddLimbs(MulSmall(x, Head(y), 0), <<0>> \o MulLimbs(x, Tail(y)), 0)

\* x < y for limb sequences
LimbsLess(x, y) ==
    LET n == Max2(Len(x), Len(y))
        at(z, i) == IF i <= Len(z) THEN z[i] ELSE 0
    IN  \E i \in 1..n :
            /\ at(x, i) < at(y, i)
            /\ \A j \in (i + 1)..n : at(x, j) = at(y, j)

\* a * a * q < b * b * p for naturals
SquareRatioLess(a, q, b, p) ==
    LimbsLess(MulLimbs(MulLimbs(ToLimbs(a), ToLimbs(a)), ToLimbs(q)),
              MulLimbs(MulLimbs(ToLimbs(b), ToLimbs(b)), ToLimbs(p)))

\* a sequence given by an expression for its i-th element, with the elements
\* worked out once, not again at every place the sequence is read
Arr(s) == s \o <<>>

\* the elements of the set S of indices, ascending
Ascending(S) ==
    Arr([p \in 1..Cardinality(S) |->
        CHOOSE i \in S : Cardinality({j \in S : j < i}) = p - 1])

\* Array.prototype.sort with a comparator that orders by an integer key,
\* ascending; the sort is stable. k[i] is the key of s[i].
SortByKey(s, k) ==
    LET n == Len(s)
        pos(i) == 1 + Cardinality({j \in 1..n :
                        k[j] < k[i] \/ (k[j] = k[i] /\ j < i)})
    IN  Arr([p \in 1..n |-> s[CHOOSE i \in 1..n : pos(i) = p]])

\* bitwise operators of 32-bit integers, for naturals
RECURSIVE BitOr(_, _)
BitOr(a, b) ==
    IF a = 0 THEN b
    ELSE IF b = 0 THEN a
    ELSE Max2(a % 2, b % 2) + 2 * BitOr(a \div 2, b \div 2)

Shl(a, n) == a * (2 ^ n)
Shr(a, n) == a \div (2 ^ n)
And255(a) == a % 256

-----------------------------------------------------------------------------
(* utils.js *)

colorDistSq(c1, c2) ==
    LET dr == c1[1] - c2[1]
        dg == c1[2] - c2[2]
        db == c1[3] - c2[3]
    IN  dr * dr + dg * dg + db * db

Lum3(c) == c[1] + c[2] + c[3]

\* index (1-based) of the first colour of cs nearest to c: the loop
\* "if (d < minDist) { minDist = d; minIdx = i }" started at minDist = Infinity
NearestIdx(c, cs) ==
    CHOOSE i \in 1..Len(cs) :
        /\ \A j \in 1..Len(cs) : colorDistSq(c, cs[i]) <= colorDistSq(c, cs[j])
        /\ \A j \in 1..(i - 1) : colorDistSq(c, cs[j]) > colorDistSq(c, cs[i])

MinDistSq(c, cs) == colorDistSq(c, cs[NearestIdx(c, cs)])

-----------------------------------------------------------------------------
(* color-quantize.js: kMeansQuantize *)

\* the alpha test of the sampler
SampledOpaque(px) == px[4] > 128

\* Math.round(v / 2) * 2
Quantize7(v) == RoundDiv(v, 2) * 2

PackKey(r, g, b) == BitOr(BitOr(Shl(r, 16), Shl(g, 8)), b)
UnpackKey(key) == <<And255(Shr(key, 16)), And255(Shr(key, 8)), And255(key)>>

SampleKey(px) == PackKey(Quantize7(px[1]), Quantize7(px[2]), Quantize7(px[3]))

SampleRate(totalPixels) ==
    IF totalPixels > MAX_SAMPLES THEN CeilDiv(totalPixels, MAX_SAMPLES) ELSE 1

\* pixelCounts, as the sequence of [key, count] in the Map's insertion order
PixelCounts(data) ==
    LET n == Len(data)
        rate == SampleRate(n)
        keyAt == Arr([i \in 1..n |->
                        IF (i - 1) % rate = 0 /\ SampledOpaque(data[i])
                        THEN SampleKey(data[i]) ELSE -1])
        keys == {keyAt[i] : i \in 1..n} \ {-1}
        at(k) == {i \in 1..n : keyAt[i] = k}
        first(k) == CHOOSE i \in at(k) : \A j \in at(k) : i <= j
        order == Ascending({first(k) : k \in keys})
    IN  Arr([p \in 1..Len(order) |->
            [key |-> keyAt[order[p]],
             count |-> Cardinality(at(keyAt[order[p]]))]])

\* weightedColors after the sort by descending weight
WeightedColors(data) ==
    LET byWeight(wcs) == SortByKey(wcs, [p \in 1..Len(wcs) |-> -(wcs[p].weight)])
        unpacked(pcs) ==
            byWeight(Arr([p \in 1..Len(pcs) |->
                            [color |-> UnpackKey(pcs[p].key),
                             weight |-> pcs[p].count]]))
    IN  unpacked(PixelCounts(data))

\* distances[i] = minDist * weight of the seeding loop
SeedDistances(wcs, cs) ==
    Arr([i \in 1..Len(wcs) |-> MinDistSq(wcs[i].color, cs) * wcs[i].weight])

\* the indices the roulette can stop at: r = Math.random() * totalDist lies in
\* [0, totalDist); index i is taken when r first drops to <= 0 there. r = 0
\* stops at the first index, a positive r at any index of positive distance.
RouletteChoices(dist) ==
    {1} \cup {i \in 1..Len(dist) : dist[i] > 0}

\* the farthest-point pick: first index of the largest distance, index 0 when
\* every distance is 0
FarthestIdx(dist) ==
    IF \A i \in 1..Len(dist) : dist[i] = 0 THEN 1
    ELSE CHOOSE i \in 1..Len(dist) :
            /\ \A j \in 1..Len(dist) : dist[j] <= dist[i]
            /\ \A j \in 1..(i - 1) : dist[j] < dist[i]

\* the guard "centers.length === centers.length" in front of the
\* farthest-point pick
FallbackGuard(cs) == Len(cs) = Len(cs)

\* one round of the seeding while-loop, the roulette stopping at index pick
SeedRound(wcs, cs, pick) ==
    LET dist == SeedDistances(wcs, cs)
        afterRoulette == Append(cs, wcs[pick].color)
    IN  IF FallbackGuard(afterRoulette)
        THEN Append(afterRoulette, wcs[FarthestIdx(dist)].color)
        ELSE afterRoulette

SeedLoopGuard(wcs, cs, maxColors) ==
    Len(cs) < maxColors /\ Len(cs) < Len(wcs)

\* one K-Means round: the new centres and whether any moved
KMeansRound(wcs, cs) ==
    LET assign == Arr([w \in 1..Len(wcs) |-> NearestIdx(wcs[w].color, cs)])
        members(i) == {w \in 1..Len(wcs) : assign[w] = i}
        wsum(i) == LET m == members(i)
                       ws == Arr([p \in 1..Len(wcs) |->
                                 IF p \in m THEN wcs[p].weight ELSE 0])
                   IN  SumSeq(ws)
        csum(i, ch) == SumSeq([p \in 1..Len(wcs) |->
                          IF assign[p] = i
                          THEN wcs[p].color[ch] * wcs[p].weight ELSE 0])
        newCenter(i) == <<RoundDiv(csum(i, 1), wsum(i)),
                          RoundDiv(csum(i, 2), wsum(i)),
                          RoundDiv(csum(i, 3), wsum(i))>>
        moved(i) == wsum(i) > 0 /\ colorDistSq(newCenter(i), cs[i]) > 4
    IN  [centers |-> Arr([i \in 1..Len(cs) |->
                         IF moved(i) THEN newCenter(i) ELSE cs[i]]),
         changed |-> \E i \in 1..Len(cs) : moved(i)]

\* the iteration loop: at most maxIterations rounds, left when nothing moved
RECURSIVE KMeansIterate(_, _, _)
KMeansIterate(wcs, cs, rounds) ==
    LET next(r) == IF r.changed THEN KMeansIterate(wcs, r.centers, rounds - 1)
                   ELSE r.centers
    IN  IF rounds = 0 THEN cs
        ELSE next(KMeansRound(wcs, cs))

\* the merge of similar centres (distance < 20)
RECURSIVE MergeCenters(_, _, _)
MergeCenters(cs, i, used) ==
    IF i > Len(cs) THEN <<>>
    ELSE IF i \in used THEN MergeCenters(cs, i + 1, used)
    ELSE LET js == {j \in (i + 1)..Len(cs) :
                       j \notin used
                       /\ colorDistSq(cs[i], cs[j]) < KMeansMergeThreshold}
             count == 1 + Cardinality(js)
             sum(ch) == cs[i][ch]
                        + SumSeq([j \in 1..Len(cs) |->
                                     IF j \in js THEN cs[j][ch] ELSE 0])
         IN  <<<<RoundDiv(sum(1), count), RoundDiv(sum(2), count),
                 RoundDiv(sum(3), count)>>>>
             \o MergeCenters(cs, i + 1, used \cup js \cup {i})


\* isEdgeColor with the range of t that its header comment names,
\* (0.05, 0.95), in place of minT = 0.1 and maxT = 0.9
isEdgeColorWide(color, mainColors) ==
    /\ Len(mainColors) >= 2
    /\ \E i \in 1..Len(mainColors) : \E j \in (i + 1)..Len(mainColors) :
         LET A == mainColors[i]
             B == mainColors[j]
             ABsq == colorDistSq(B, A)
             ACsq == colorDistSq(color, A)
             dot == (color[1] - A[1]) * (B[1] - A[1])
                    + (color[2] - A[2]) * (B[2] - A[2])
                    + (color[3] - A[3]) * (B[3] - A[3])
         IN  /\ ~(ABsq < 100)
             /\ ~(20 * dot <= ABsq \/ 20 * dot >= 19 * ABsq)
             /\ \/ ACsq < 2500
                \/ ProdLess(ACsq - 2500, ABsq, dot, dot)

\* isEdgeColor: the colour lies near the segment between two main colours.
\* t = dot / |AB|^2 is compared with 0.1 and 0.9, and the distance of the
\* colour to its projection, sqrt(|AC|^2 - dot^2 / |AB|^2), with 50
isEdgeColor(color, mainColors) ==
    /\ Len(mainColors) >= 2
    /\ \E i \in 1..Len(mainColors) : \E j \in (i + 1)..Len(mainColors) :
         LET A == mainColors[i]
             B == mainColors[j]
             ABsq == colorDistSq(B, A)
             ACsq == colorDistSq(color, A)
             dot == (color[1] - A[1]) * (B[1] - A[1])
                    + (color[2] - A[2]) * (B[2] - A[2])
                    + (color[3] - A[3]) * (B[3] - A[3])
         IN  /\ ~(ABsq < 100)
             /\ ~(10 * dot < ABsq \/ 10 * dot > 9 * ABsq)
             /\ \/ ACsq < 2500
                \/ ProdLess(ACsq - 2500, ABsq, dot, dot)

\* the colours filterEdgeColors keeps, as indices into colors
RECURSIVE KeepCandidates(_, _, _)
KeepCandidates(colors, cands, mains) ==
    IF cands = <<>> THEN <<>>
    ELSE LET c == colors[Head(cands)]
             mainColorArray == Arr([m \in 1..Len(mains) |-> colors[mains[m]]])
             independent == MinDistSq(c, mainColorArray) > 3600
             rest == KeepCandidates(colors, Tail(cands), mains)
         IN  IF independent \/ ~isEdgeColor(c, mainColorArray)
             THEN <<Head(cands)>> \o rest
             ELSE rest

\* colorWeights: the weight of the samples nearest to each colour
EdgeColorWeights(colors, wcs) ==
    LET n == Len(colors)
        summed(nearest) ==
            Arr([k \in 1..n |->
                SumSeq([w \in 1..Len(wcs) |->
                           IF nearest[w] = k THEN wcs[w].weight ELSE 0])])
    IN  summed(Arr([w \in 1..Len(wcs) |-> NearestIdx(wcs[w].color, colors)]))

\* mainColors and edgeCandidates, as indices into colors: a colour is main
\* when ratio >= Math.max(0.005, 0.1 / maxColors); with fewer than two of
\* them, the two heaviest colours are
EdgeFilterSplit(colors, colorWeights, maxColors) ==
    LET n == Len(colors)
        totalPixels == SumSeq(colorWeights)
        isMain(k) == /\ 200 * colorWeights[k] >= totalPixels
                     /\ 10 * maxColors * colorWeights[k] >= totalPixels
        main == {k \in 1..n : isMain(k)}
        sorted == SortByKey([k \in 1..n |-> k],
                            [k \in 1..n |-> -(colorWeights[k])])
    IN  IF Cardinality(main) < 2
        THEN [mains |-> SubSeq(sorted, 1, 2), cands |-> SubSeq(sorted, 3, n)]
        ELSE [mains |-> Ascending(main), cands |-> Ascending((1..n) \ main)]

\* the result of filterEdgeColors as indices into colors
EdgeFilterKept(colors, wcs, maxColors) ==
    LET n == Len(colors)
        split(s) == s.mains \o KeepCandidates(colors, s.cands, s.mains)
        weighed(colorWeights) ==
            IF SumSeq(colorWeights) = 0 THEN [k \in 1..n |-> k]
            ELSE split(EdgeFilterSplit(colors, colorWeights, maxColors))
    IN  IF n <= 2 THEN [k \in 1..n |-> k]
        ELSE weighed(EdgeColorWeights(colors, wcs))

filterEdgeColors(colors, wcs, maxColors) ==
    LET chosen(kept) == Arr([p \in 1..Len(kept) |-> colors[kept[p]]])
    IN  chosen(EdgeFilterKept(colors, wcs, maxColors))

\* sort((a, b) => (a[0]+a[1]+a[2]) - (b[0]+b[1]+b[2]))
SortByLuminance(cs) == SortByKey(cs, [i \in 1..Len(cs) |-> Lum3(cs[i])])

\* everything kMeansQuantize does after the iteration: merge, filter, sort
KMeansFinish(cs, wcs, maxColors) ==
    LET filtered(merged) == IF maxColors <= 16
                            THEN filterEdgeColors(merged, wcs, maxColors)
                            ELSE merged
    IN  SortByLuminance(filtered(MergeCenters(cs, 1, {})))

-----------------------------------------------------------------------------
(* kMeansQuantize, step by step *)

KMSample ==
    /\ pc = "sample"
    /\ LET sampled(wcs) ==
               IF Len(wcs) = 0
               THEN /\ palette' = <<<<128, 128, 128>>>>
                    /\ pc' = "quantized"
                    /\ UNCHANGED <<weightedColors, centers>>
               ELSE /\ weightedColors' = wcs
                    /\ centers' = <<wcs[1].color>>
                    /\ pc' = "seed"
                    /\ UNCHANGED palette
       IN  sampled(WeightedColors(image.data))
    /\ UNCHANGED <<presetName, options, image, currentPalette, changed, aliased,
                   pixelColorMap, otsuThreshold, colorIdx, layers, result,
                   fitCurveFn, libsLoaded, scripts, calls, fitCalls,
                   input, output>>

KMSeed ==
    /\ pc = "seed"
    /\ SeedLoopGuard(weightedColors, centers, options.numColors)
    /\ \E pick \in RouletteChoices(SeedDistances(weightedColors, centers)) :
         centers' = SeedRound(weightedColors, centers, pick)
    /\ UNCHANGED <<pc, presetName, options, image, weightedColors, palette,
                   currentPalette, changed, aliased, pixelColorMap,
                   otsuThreshold, colorIdx, layers, result,
                   fitCurveFn, libsLoaded, scripts, calls, fitCalls,
                   input, output>>

KMSeedExit ==
    /\ pc = "seed"
    /\ ~SeedLoopGuard(weightedColors, centers, options.numColors)
    /\ pc' = "iterate"
    /\ UNCHANGED <<presetName, options, image, weightedColors, centers, palette,
                   currentPalette, changed, aliased, pixelColorMap,
                   otsuThreshold, colorIdx, layers, result,
                   fitCurveFn, libsLoaded, scripts, calls, fitCalls,
                   input, output>>

KMIterate ==
    /\ pc = "iterate"
    /\ centers' = KMeansIterate(weightedColors, centers, KMeansMaxIterations)
    /\ pc' = "finish"
    /\ UNCHANGED <<presetName, options, image, weightedColors, palette,
                   currentPalette, changed, aliased, pixelColorMap,
                   otsuThreshold, colorIdx, layers, result,
                   fitCurveFn, libsLoaded, scripts, calls, fitCalls,
                   input, output>>

\* the return: the locals weightedColors and centers are gone after it
KMFinish ==
    /\ pc = "finish"
    /\ palette' = KMeansFinish(centers, weightedColors, options.numColors)
    /\ weightedColors' = <<>>
    /\ centers' = <<>>
    /\ pc' = "quantized"
    /\ UNCHANGED <<presetName, options, image,
                   currentPalette, changed, aliased, pixelColorMap,
                   otsuThreshold, colorIdx, layers, result,
                   fitCurveFn, libsLoaded, scripts, calls, fitCalls,
                   input, output>>

NoResult == [engine |-> "none"]

\* the option defaults of vectorize
DefaultOptions ==
    [preset |-> "none", numColors |-> 16, colorTolerance |-> 25,
     pathTolerance10 |-> 10, smoothness10 |-> 25, minPathLength |-> 16,
     mode |-> "spline", binaryMode |-> FALSE, blurSigma10 |-> 5,
     morphology |-> TRUE, contourMethod |-> "marching"]

\* the colours of the images kMeansQuantize is tried on
KMColours ==
    {<<0, 0, 0>>, <<200, 0, 0>>, <<0, 200, 0>>, <<10, 0, 0>>}
KMPixels == {<<c[1], c[2], c[3], 255>> : c \in KMColours} \cup {<<0, 0, 0, 0>>}

KMImages ==
    UNION {[1..n -> KMPixels] : n \in 1..MaxPixels}

InitKM ==
    /\ pc = "sample"
    /\ presetName = "none"
    /\ \E k \in 1..MaxK : options = [DefaultOptions EXCEPT !.numColors = k]
    /\ \E d \in KMImages : image = [width |-> Len(d), height |-> 1, data |-> d]
    /\ weightedColors = <<>>
    /\ centers = <<>>
    /\ palette = <<>>
    /\ currentPalette = <<>>
    /\ changed = FALSE
    /\ aliased = FALSE
    /\ pixelColorMap = <<>>
    /\ otsuThreshold = -1
    /\ colorIdx = 0
    /\ layers = <<>>
    /\ result = NoResult
    /\ fitCurveFn = FALSE
    /\ CdnIdle
    /\ fitCalls = <<>>
    /\ input = <<>>
    /\ output = <<>>

NextKM == KMSample \/ KMSeed \/ KMSeedExit \/ KMIterate \/ KMFinish

SpecKM == InitKM /\ [][NextKM]_vars


-----------------------------------------------------------------------------
(* presets.js and vectorizeWithPreset *)

\* vectorize destructures its options with defaults: a preset bundle is the
\* defaults overridden by the fields the bundle sets
PRESETS ==
    [logo |->
        [DefaultOptions EXCEPT !.preset = "logo", !.numColors = 12,
            !.colorTolerance = 40, !.pathTolerance10 = 5, !.smoothness10 = 10],
     illustration |->
        [DefaultOptions EXCEPT !.preset = "illustration", !.numColors = 24,
            !.colorTolerance = 30, !.pathTolerance10 = 5, !.smoothness10 = 15],
     lineart |->
        [DefaultOptions EXCEPT !.preset = "lineart", !.numColors = 2,
            !.colorTolerance = 60, !.pathTolerance10 = 5, !.smoothness10 = 15,
            !.binaryMode = TRUE, !.morphology = FALSE,
            !.contourMethod = "vtracer"],
     photo |->
        [DefaultOptions EXCEPT !.preset = "photo", !.numColors = 64,
            !.colorTolerance = 35, !.smoothness10 = 10, !.minPathLength = 64],
     pixel |->
        [DefaultOptions EXCEPT !.preset = "pixel", !.numColors = 16,
            !.colorTolerance = 45, !.pathTolerance10 = 2, !.smoothness10 = 0,
            !.minPathLength = 1, !.mode = "polygon", !.blurSigma10 = 0,
            !.morphology = FALSE],
     simple |->
        [DefaultOptions EXCEPT !.preset = "simple", !.numColors = 8,
            !.colorTolerance = 35, !.pathTolerance10 = 5, !.smoothness10 = 10]]

\* names that vectorizeWithPreset does not look up in PRESETS
SpecialPresetNames == {"smart", "blocks", "auto"}

\* property names every object inherits from Object.prototype: PRESETS[name]
\* is a function for them, whose option fields are all undefined
InheritedNames == {"constructor", "toString", "valueOf", "hasOwnProperty"}

\* a lookup that falls back to no preset at all
PresetLookupOwn(name) ==
    IF name \in DOMAIN PRESETS THEN PRESETS[name] ELSE DefaultOptions

\* PRESETS[presetName] || PRESETS.logo, as the options vectorize then reads
PresetLookup(name) ==
    IF name \in DOMAIN PRESETS THEN PRESETS[name]
    ELSE IF name \in InheritedNames THEN DefaultOptions
    ELSE PRESETS["logo"]

VectorizeWithPreset ==
    /\ pc = "call"
    /\ presetName \notin SpecialPresetNames
    /\ options' = PresetLookup(presetName)
    /\ pc' = "load"
    /\ UNCHANGED <<presetName, image, weightedColors, centers, palette,
                   currentPalette, changed, aliased, pixelColorMap,
                   otsuThreshold, colorIdx, layers, result,
                   fitCurveFn, libsLoaded, scripts, calls, fitCalls,
                   input, output>>

\* utils.js: loadCdnLibs, awaited first by vectorize. With a document and
\* the scripts loaded the page has the global fitCurve; in a worker, or when
\* a script fails to load, it has not. The call is one step here, for what
\* vectorize sees of it; the flag, the script elements and calls that
\* overlap are followed step by step by the actions of SpecCdn.
LoadCdnLibs ==
    /\ pc = "load"
    /\ \E loaded \in BOOLEAN : fitCurveFn' = loaded
    /\ pc' = "vectorize"
    /\ UNCHANGED <<presetName, options, image, weightedColors, centers,
                   palette, currentPalette, changed, aliased, pixelColorMap,
                   otsuThreshold, colorIdx, layers, result, fitCalls,
                   libsLoaded, scripts, calls, input, output>>

-----------------------------------------------------------------------------
(* index.js: vectorize, colour quantization *)

useLuminance(opts) == opts.binaryMode \/ opts.numColors <= 2
isPixelArt(opts) == opts.preset = "pixel"

\* Math.round(r * 0.299 + g * 0.587 + b * 0.114)
LumRound(px) == RoundDiv(px[1] * 299 + px[2] * 587 + px[3] * 114, 1000)

\* computeOtsuThreshold: the first t of the largest between-class variance
\* wB * wF * (mB - mF)^2, 128 when no t has a positive one
computeOtsuThreshold(data) ==
    LET idxs == {i \in 1..Len(data) : data[i][4] > 128}
        total == Cardinality(idxs)
        sum == SumSeq([i \in 1..Len(data) |->
                          IF i \in idxs THEN LumRound(data[i]) ELSE 0])
        wB(t) == Cardinality({i \in idxs : LumRound(data[i]) <= t})
        sumB(t) == SumSeq([i \in 1..Len(data) |->
                      IF i \in idxs /\ LumRound(data[i]) <= t
                      THEN LumRound(data[i]) ELSE 0])
        \* the loop reaches t with some sample below or at t and some above;
        \* the variance changes only at a t that is the level of some sample
        cand == {t \in {LumRound(data[i]) : i \in idxs} : wB(t) < total}
        \* (mB - mF) = diff(t) / (wB * wF)
        diff(t) == sumB(t) * (total - wB(t)) - (sum - sumB(t)) * wB(t)
        \* variance(t) = diff(t)^2 / (wB * wF), compared without division
        den(t) == wB(t) * (total - wB(t))
        less(t, u) == SquareRatioLess(Abs(diff(t)), den(u), Abs(diff(u)), den(t))
        positive == {t \in cand : diff(t) # 0}
    IN  IF total = 0 \/ positive = {} THEN 128
        ELSE CHOOSE t \in positive :
                /\ \A u \in positive : u < t => less(u, t)
                /\ \A u \in positive : u > t => ~less(t, u)

Quantize ==
    /\ pc = "vectorize"
    /\ IF useLuminance(options)
       THEN /\ otsuThreshold' = computeOtsuThreshold(image.data)
            /\ palette' = <<<<0, 0, 0>>>>
            /\ pc' = "classify"
       ELSE /\ pc' = "sample"
            /\ UNCHANGED <<otsuThreshold, palette>>
    /\ UNCHANGED <<presetName, options, image, weightedColors, centers,
                   currentPalette, changed, aliased, pixelColorMap, colorIdx,
                   layers, result,
                   fitCurveFn, libsLoaded, scripts, calls, fitCalls,
                   input, output>>

\* the post-quantization merge
MergeThresholdVal(opts) ==
    IF opts.preset = "logo" \/ opts.preset = "simple" THEN 45 ELSE 35
\* the threshold of a merge that compared distances, not squared distances
mergeThresholdPlain(opts) == MergeThresholdVal(opts)
mergeThreshold(opts) == MergeThresholdVal(opts) * MergeThresholdVal(opts)
neutralThresholdMult == 16
BrightForceMergeDistSq == 2500

Max3(c) == Max2(c[1], Max2(c[2], c[3]))
Min3(c) == Min2(c[1], Min2(c[2], c[3]))
isNeutral(c) == Max3(c) - Min3(c) < 30

\* a snap that starts above 240 only
NearWhiteAbove240(c) == c[1] > 240 /\ c[2] > 240 /\ c[3] > 240

\* brightest[0] > 230 && brightest[1] > 230 && brightest[2] > 230
NearWhite(c) == c[1] > 230 /\ c[2] > 230 /\ c[3] > 230

\* currentPalette after the in-place sort and the white snap of its last entry
SortAndSnap(cur) ==
    LET sorted == SortByLuminance(cur)
        lastIdx == Len(sorted)
    IN  IF NearWhite(sorted[lastIdx])
        THEN [sorted EXCEPT ![lastIdx] = <<255, 255, 255>>]
        ELSE sorted

\* baseColor is a running mean, kept as the fraction n / d per channel
Frac(c) == [n |-> c, d |-> 1]
FracNorm(n, d) ==
    LET g == Gcd(Gcd(Gcd(n[1], n[2]), n[3]), d)
    IN  [n |-> <<n[1] \div g, n[2] \div g, n[3] \div g>>, d |-> d \div g]

\* colorDistSq(baseColor, c) < thr
FracDistLess(base, c, thr) ==
    LET e(k) == base.n[k] - c[k] * base.d
    IN  e(1) * e(1) + e(2) * e(2) + e(3) * e(3) < thr * base.d * base.d

\* the loop over j for one base colour i
RECURSIVE MergeInner(_, _, _, _, _, _, _, _)
MergeInner(cur, i, j, base, count, merged, chg, opts) ==
    IF j > Len(cur) THEN [base |-> base, merged |-> merged, changed |-> chg]
    ELSE IF j \in merged
    THEN MergeInner(cur, i, j + 1, base, count, merged, chg, opts)
    ELSE
    LET t == cur[j]
        \* baseLum and isBaseNeutral are taken once, from currentPalette[i]
        baseSum == Lum3(cur[i])
        targetSum == Lum3(t)
        currentThreshold ==
            IF isNeutral(cur[i]) /\ isNeutral(t)
            THEN mergeThreshold(opts) * neutralThresholdMult
            ELSE mergeThreshold(opts)
    IN  IF /\ baseSum > 630
           /\ targetSum > 630
           /\ FracDistLess(base, t, BrightForceMergeDistSq)
        THEN MergeInner(cur, i, j + 1,
                        IF targetSum > baseSum THEN Frac(t) ELSE base,
                        count + 1, merged \cup {j}, TRUE, opts)
        ELSE IF FracDistLess(base, t, currentThreshold)
        THEN MergeInner(cur, i, j + 1,
                        FracNorm(<<base.n[1] * count + t[1] * base.d,
                                   base.n[2] * count + t[2] * base.d,
                                   base.n[3] * count + t[3] * base.d>>,
                                 base.d * (count + 1)),
                        count + 1, merged \cup {j}, TRUE, opts)
        ELSE MergeInner(cur, i, j + 1, base, count, merged, chg, opts)

\* the loop over i: nextPalette and the changed flag
RECURSIVE MergeOuter(_, _, _, _, _)
MergeOuter(cur, i, merged, chg, opts) ==
    LET pushed(r, rest) ==
            [nextPalette |->
                 <<<<RoundDiv(r.base.n[1], r.base.d),
                     RoundDiv(r.base.n[2], r.base.d),
                     RoundDiv(r.base.n[3], r.base.d)>>>> \o rest.nextPalette,
             changed |-> rest.changed]
        based(r) ==
            pushed(r, MergeOuter(cur, i + 1, r.merged, r.changed, opts))
    IN  IF i > Len(cur) THEN [nextPalette |-> <<>>, changed |-> chg]
        ELSE IF i \in merged THEN MergeOuter(cur, i + 1, merged, chg, opts)
        ELSE based(MergeInner(cur, i, i + 1, Frac(cur[i]), 1, merged, chg,
                              opts))

\* the merge guard asking for more than three colours
MergeGuardAbove3(opts, pal) ==
    opts.preset # "photo" /\ opts.preset # "pixel" /\ Len(pal) > 3

MergeGuard(opts, pal) ==
    opts.preset # "photo" /\ opts.preset # "pixel" /\ Len(pal) > 2

MergeStart ==
    /\ pc = "quantized"
    /\ IF MergeGuard(options, palette)
       THEN /\ currentPalette' = palette
            /\ changed' = TRUE
            /\ aliased' = TRUE
            /\ pc' = "merge"
       ELSE /\ pc' = "classify"
            /\ UNCHANGED <<currentPalette, changed, aliased>>
    /\ UNCHANGED <<presetName, options, image, weightedColors, centers,
                   palette, pixelColorMap, otsuThreshold, colorIdx, layers,
                   result,
                   fitCurveFn, libsLoaded, scripts, calls, fitCalls,
                   input, output>>

MergeLoopGuard(chg, cur) == chg /\ Len(cur) > 2

\* one iteration of the while-loop. In the first one currentPalette is the
\* palette array itself, which the sort and the snap then change in place.
MergePass ==
    /\ pc = "merge"
    /\ MergeLoopGuard(changed, currentPalette)
    /\ LET merged(cur, r) ==
               /\ palette' = IF aliased THEN cur ELSE palette
               /\ currentPalette' = r.nextPalette
               /\ changed' = r.changed
               /\ aliased' = FALSE
           sorted(cur) == merged(cur, MergeOuter(cur, 1, {}, FALSE, options))
       IN  sorted(SortAndSnap(currentPalette))
    /\ UNCHANGED <<pc, presetName, options, image, weightedColors, centers,
                   pixelColorMap, otsuThreshold, colorIdx, layers, result,
                   fitCurveFn, libsLoaded, scripts, calls, fitCalls,
                   input, output>>

MergeExit ==
    /\ pc = "merge"
    /\ ~MergeLoopGuard(changed, currentPalette)
    /\ palette' = IF Len(currentPalette) < Len(palette)
                  THEN currentPalette ELSE palette
    /\ pc' = "classify"
    /\ UNCHANGED <<presetName, options, image, weightedColors, centers,
                   currentPalette, changed, aliased, pixelColorMap,
                   otsuThreshold, colorIdx, layers, result,
                   fitCurveFn, libsLoaded, scripts, calls, fitCalls,
                   input, output>>

-----------------------------------------------------------------------------
(* index.js: vectorize, pixel classification; utils.js: denoisePixelMap *)

\* the alpha test of the classifier
ClassifiedOpaque(px) == px[4] > 128

TransparentMark == 255

\* pixelColorMap[i]: 0-based index of the nearest palette colour
ClassifyPixel(px, pal) ==
    IF ClassifiedOpaque(px)
    THEN (NearestIdx(<<px[1], px[2], px[3]>>, pal) - 1) % 256
    ELSE TransparentMark

\* the colours of the 3x3 neighbourhood of (x, y) in scan order, without the
\* transparent ones
Neighbourhood(map, width, height, x, y) ==
    LET cells == [k \in 1..9 |-> <<x + ((k - 1) % 3) - 1, y + ((k - 1) \div 3) - 1>>]
        ok(k) == /\ cells[k][1] >= 0 /\ cells[k][1] < width
                 /\ cells[k][2] >= 0 /\ cells[k][2] < height
                 /\ map[cells[k][2] * width + cells[k][1] + 1] # TransparentMark
        ks == Ascending({k \in 1..9 : ok(k)})
    IN  Arr([p \in 1..Len(ks) |-> map[cells[ks[p]][2] * width + cells[ks[p]][1] + 1]])

\* the mode filter with the replacement threshold at 4 votes
DenoisePixelAt4(map, width, height, x, y) ==
    LET color == map[y * width + x + 1]
        voted(ns) ==
            \* counts[nColor] right after the p-th neighbour was counted
            LET countAt(p) == Cardinality({q \in 1..p : ns[q] = ns[p]})
                maxCount == CHOOSE m \in {countAt(p) : p \in 1..Len(ns)} :
                                \A p \in 1..Len(ns) : countAt(p) <= m
                \* maxColor: the colour that reaches the largest count first
                first == CHOOSE p \in 1..Len(ns) :
                             /\ countAt(p) = maxCount
                             /\ \A q \in 1..(p - 1) : countAt(q) < maxCount
                centerCount == Cardinality({q \in 1..Len(ns) : ns[q] = color})
            IN  IF centerCount = 1 \/ (ns[first] # color /\ maxCount >= 4)
                THEN ns[first]
                ELSE color
    IN  IF color = TransparentMark THEN TransparentMark
        ELSE voted(Neighbourhood(map, width, height, x, y))

\* the new value of one pixel in one round of the mode filter
DenoisePixel(map, width, height, x, y) ==
    LET color == map[y * width + x + 1]
        voted(ns) ==
            \* counts[nColor] right after the p-th neighbour was counted
            LET countAt(p) == Cardinality({q \in 1..p : ns[q] = ns[p]})
                maxCount == CHOOSE m \in {countAt(p) : p \in 1..Len(ns)} :
                                \A p \in 1..Len(ns) : countAt(p) <= m
                \* maxColor: the colour that reaches the largest count first
                first == CHOOSE p \in 1..Len(ns) :
                             /\ countAt(p) = maxCount
                             /\ \A q \in 1..(p - 1) : countAt(q) < maxCount
                centerCount == Cardinality({q \in 1..Len(ns) : ns[q] = color})
            IN  IF centerCount = 1 \/ (ns[first] # color /\ maxCount >= 5)
                THEN ns[first]
                ELSE color
    IN  IF color = TransparentMark THEN TransparentMark
        ELSE voted(Neighbourhood(map, width, height, x, y))

RECURSIVE denoisePixelMap(_, _, _, _)
denoisePixelMap(map, width, height, iterations) ==
    IF iterations = 0 THEN map
    ELSE denoisePixelMap(
             Arr([i \in 1..(width * height) |->
                 DenoisePixel(map, width, height,
                              (i - 1) % width, (i - 1) \div width)]),
             width, height, iterations - 1)

DenoiseIterations == 2

Classify ==
    /\ pc = "classify"
    /\ pixelColorMap' =
          IF useLuminance(options)
          THEN [i \in 1..(image.width * image.height) |-> 0]
          ELSE Arr([i \in 1..(image.width * image.height) |->
                   ClassifyPixel(image.data[i], palette)])
    /\ pc' = "denoise"
    /\ UNCHANGED <<presetName, options, image, weightedColors, centers,
                   palette, currentPalette, changed, aliased, otsuThreshold,
                   colorIdx, layers, result,
                   fitCurveFn, libsLoaded, scripts, calls, fitCalls,
                   input, output>>

Denoise ==
    /\ pc = "denoise"
    /\ pixelColorMap' =
          IF ~useLuminance(options) /\ ~isPixelArt(options)
          THEN denoisePixelMap(pixelColorMap, image.width, image.height,
                               DenoiseIterations)
          ELSE pixelColorMap
    /\ colorIdx' = 0
    /\ pc' = "layers"
    /\ UNCHANGED <<presetName, options, image, weightedColors, centers,
                   palette, currentPalette, changed, aliased, otsuThreshold,
                   layers, result,
                   fitCurveFn, libsLoaded, scripts, calls, fitCalls,
                   input, output>>

-----------------------------------------------------------------------------
(* binary-image.js: grey maps and bitmaps.                                  *)
(* Grey levels are fixed-point numbers, GreyUnit steps per level; maps are  *)
(* sequences of width * height values, pixel (x, y) at y * width + x + 1.   *)

GreyUnit == 10 * 10
GreyMax == 255 * GreyUnit

\* floor of the square root
RECURSIVE ISqrtIn(_, _, _)
ISqrtIn(n, lo, hi) ==
    IF lo >= hi THEN lo
    ELSE LET mid == (lo + hi + 1) \div 2
         IN  IF mid <= n \div mid THEN ISqrtIn(n, mid, hi)
             ELSE ISqrtIn(n, lo, mid - 1)
ISqrt(n) == IF n <= 0 THEN 0 ELSE ISqrtIn(n, 1, Min2(n, 46340))

\* the normalised kernel of gaussianBlur for sigma = 0.5 (radius 2), in
\* ten-thousandths: exp(-x^2 / 0.5) / 1.2713
GaussKernelHalf == <<3, 1064, 7866, 1064, 3>>
GaussRadiusHalf == 2

Clamp(v, lo, hi) == Max2(lo, Min2(hi, v))

\* gaussianBlur: a horizontal pass, then a vertical one, the borders clamped.
\* sigma10 is ten times sigma; the model knows the kernel of sigma = 0.5 only.
gaussianBlur(grayscale, width, height, sigma10) ==
    IF sigma10 <= 0 THEN grayscale
    ELSE
    LET radius == GaussRadiusHalf
        kernel == GaussKernelHalf
        temp == Arr([i \in 1..(width * height) |->
            LET x == (i - 1) % width
                y == (i - 1) \div width
            IN  RoundDiv(SumSeq([k \in 1..(2 * radius + 1) |->
                    grayscale[y * width
                              + Clamp(x + k - 1 - radius, 0, width - 1) + 1]
                    * kernel[k]]), 10000)])
    IN  Arr([i \in 1..(width * height) |->
            LET x == (i - 1) % width
                y == (i - 1) \div width
            IN  RoundDiv(SumSeq([k \in 1..(2 * radius + 1) |->
                    temp[Clamp(y + k - 1 - radius, 0, height - 1) * width
                         + x + 1]
                    * kernel[k]]), 10000)])

\* the 4-neighbours of pixel index i that lie inside the image
Neighbours4(i, width, height) ==
    LET x == (i - 1) % width
        y == (i - 1) \div width
    IN  (IF x > 0 THEN {i - 1} ELSE {})
        \cup (IF x < width - 1 THEN {i + 1} ELSE {})
        \cup (IF y > 0 THEN {i - width} ELSE {})
        \cup (IF y < height - 1 THEN {i + width} ELSE {})

dilate(bitmap, width, height) ==
    Arr([i \in 1..(width * height) |->
        IF bitmap[i] = 1 THEN 1
        ELSE IF \E n \in Neighbours4(i, width, height) : bitmap[n] = 1
        THEN 1 ELSE 0])

erode(bitmap, width, height) ==
    Arr([i \in 1..(width * height) |->
        IF bitmap[i] = 0 THEN 0
        ELSE IF \A n \in Neighbours4(i, width, height) : bitmap[n] = 1
        THEN 1 ELSE 0])

morphClose(bitmap, width, height) ==
    erode(dilate(bitmap, width, height), width, height)

\* Union-Find of filterSmallRegions: parent[l] is the parent of label l
RECURSIVE UFFind(_, _)
UFFind(parent, l) == IF parent[l] = l THEN l ELSE UFFind(parent, parent[l])

\* union that links nothing: the provisional labels stay apart
UFUnionNone(parent, a, b) == parent

UFUnion(parent, a, b) ==
    LET ra == UFFind(parent, a)
        rb == UFFind(parent, b)
    IN  IF ra = rb THEN parent
        ELSE [parent EXCEPT ![Max2(ra, rb)] = Min2(ra, rb)]

\* the first pass at pixel i: its label and the parent links
LabelStep(bitmap, width, i, st) ==
    IF bitmap[i] = 0
    THEN [labels |-> Append(st.labels, 0), parent |-> st.parent]
    ELSE
    LET x == (i - 1) % width
        left == IF x > 0 /\ bitmap[i - 1] = 1
                THEN <<st.labels[i - 1]>> ELSE <<>>
        up == IF i > width /\ bitmap[i - width] = 1
              THEN <<st.labels[i - width]>> ELSE <<>>
        neighbors == left \o up
    IN  IF neighbors = <<>>
        THEN [labels |-> Append(st.labels, Len(st.parent) + 1),
              parent |-> Append(st.parent, Len(st.parent) + 1)]
        ELSE LET roots == {UFFind(st.parent, neighbors[k]) :
                              k \in 1..Len(neighbors)}
                 minN == CHOOSE r \in roots : \A q \in roots : r <= q
                 p1 == UFUnion(st.parent, neighbors[1], minN)
                 p2 == IF Len(neighbors) > 1
                       THEN UFUnion(p1, neighbors[2], minN) ELSE p1
             IN  [labels |-> Append(st.labels, minN), parent |-> p2]

\* the first pass over the pixels lo..hi in scan order
RECURSIVE LabelPass(_, _, _, _, _)
LabelPass(bitmap, width, lo, hi, st) ==
    IF lo > hi THEN st
    ELSE IF lo = hi THEN LabelStep(bitmap, width, lo, st)
    ELSE LET mid == (lo + hi) \div 2
             half == LabelPass(bitmap, width, lo, mid, st)
         IN  IF Len(half.labels) = mid
             THEN LabelPass(bitmap, width, mid + 1, hi, half)
             ELSE half

\* filterSmallRegions: the pixels of the 4-connected regions of at least
\* max(4, min(50, floor(maxSize / minRatio))) pixels
filterSmallRegions(bitmap, width, height, minRatio) ==
    LET fg == {i \in 1..Len(bitmap) : bitmap[i] = 1}
        keep(root, size) ==
            LET sizes == {size[r] : r \in DOMAIN size}
                maxSize == IF sizes = {} THEN 0
                           ELSE CHOOSE m \in sizes : \A q \in sizes : q <= m
                minPixels == Max2(4, Min2(50, maxSize \div minRatio))
            IN  Arr([i \in 1..Len(bitmap) |->
                    IF i \in fg /\ size[root[i]] >= minPixels THEN 1 ELSE 0])
        sized(root) ==
            keep(root, [r \in {root[i] : i \in fg} |->
                           Cardinality({i \in fg : root[i] = r})])
        rooted(lp) == sized([i \in fg |-> UFFind(lp.parent, lp.labels[i])])
    IN  rooted(LabelPass(bitmap, width, 1, Len(bitmap),
                         [labels |-> <<>>, parent |-> <<>>]))

\* the alpha tests of the two bitmap builders
BitmapOpaque(px) == px[4] > 128
MapTransparent(px) == px[4] < 128

\* r * 0.299 + g * 0.587 + b * 0.114, in grey units
LumGrey(px) ==
    RoundDiv((px[1] * 299 + px[2] * 587 + px[3] * 114) * GreyUnit, 1000)

\* Math.min(255, dist * 128 / tolerance), dist the distance to targetColor
DistGrey(px, targetColor, tolerance) ==
    Min2(GreyMax,
         (ISqrt(colorDistSq(<<px[1], px[2], px[3]>>, targetColor) * 10000)
          * 128) \div tolerance)

\* darkCount > totalCount * 0.4
AutoInvert(darkCount, totalCount) == 10 * darkCount > 4 * totalCount

\* createBinaryBitmap: [data, grayscale, inverted]
createBinaryBitmap(imageData, targetColor, tolerance, useLum, threshold, blurSigma10, morphology) ==
    LET width == imageData.width
        height == imageData.height
        data == imageData.data
        n == width * height
        opaque == {i \in 1..n : BitmapOpaque(data[i])}
        built(gray1, bitmap, inverted) ==
            LET bitmap2 == IF inverted
                           THEN Arr([i \in 1..n |->
                                    IF i \in opaque THEN 1 - bitmap[i]
                                    ELSE bitmap[i]])
                           ELSE bitmap
            IN  [data |-> IF morphology THEN morphClose(bitmap2, width, height)
                          ELSE bitmap2,
                 width |-> width, height |-> height,
                 inverted |-> inverted,
                 grayscale |-> IF inverted
                               THEN Arr([i \in 1..n |->
                                        IF i \in opaque THEN GreyMax - gray1[i]
                                        ELSE gray1[i]])
                               ELSE gray1]
        counted(gray1, bitmap) ==
            built(gray1, bitmap,
                  useLum /\ AutoInvert(Cardinality({i \in 1..n : bitmap[i] = 1}),
                                       Cardinality(opaque)))
        blurred(gray1) ==
            counted(gray1,
                    Arr([i \in 1..n |->
                        IF i \in opaque /\ gray1[i] < threshold * GreyUnit
                        THEN 1 ELSE 0]))
    IN  blurred(gaussianBlur(
            Arr([i \in 1..n |->
                IF i \in opaque
                THEN IF useLum THEN LumGrey(data[i])
                     ELSE DistGrey(data[i], targetColor, tolerance)
                ELSE GreyMax]),
            width, height, blurSigma10))

\* the mixing ratio of one pixel between the target colour and the nearest
\* other palette colour: t = dT / (dT + dO), then sqrt, then smoothstep,
\* times 255. Distances in hundredths, ratios in ten-thousandths.
MixGrey(px, pal, targetIdx, isTarget) ==
    LET c == <<px[1], px[2], px[3]>>
        dT == ISqrt(colorDistSq(c, pal[targetIdx]) * 10000)
        others == {colorDistSq(c, pal[j]) :
                      j \in (1..Len(pal)) \ {targetIdx}}
        minOther == CHOOSE d \in others : \A e \in others : d <= e
        dO == ISqrt(minOther * 10000)
        t0 == (dT * 10000) \div (dT + dO)
        t1 == ISqrt(t0 * 10000)
        t2 == (((t1 * t1) \div 10000) * (30000 - 2 * t1)) \div 10000
    IN  IF dT + dO < 100
        THEN IF isTarget THEN 0 ELSE GreyMax
        ELSE (t2 * GreyMax) \div 10000

\* dilation into every neighbour of the foreground, transparent or not
dilateUnconstrained(bitmap, width, height, map, targetColorIdx) ==
    Arr([i \in 1..(width * height) |->
        IF bitmap[i] = 1 THEN 1
        ELSE IF \E n \in Neighbours4(i, width, height) : bitmap[n] = 1
        THEN 1 ELSE 0])

dilateWithColorConstraint(bitmap, width, height, map, targetColorIdx) ==
    Arr([i \in 1..(width * height) |->
        IF bitmap[i] = 1 THEN 1
        ELSE IF /\ \E n \in Neighbours4(i, width, height) : bitmap[n] = 1
                /\ map[i] # TransparentMark
        THEN 1 ELSE 0])

RECURSIVE DilateTimes(_, _, _, _, _, _)
DilateTimes(bitmap, width, height, map, targetColorIdx, times) ==
    IF times = 0 THEN bitmap
    ELSE DilateTimes(dilateWithColorConstraint(bitmap, width, height, map,
                                               targetColorIdx),
                     width, height, map, targetColorIdx, times - 1)

SmallRegionRatio == 100000

\* createBinaryBitmapFromMap; targetColorIdx is 0-based as in the source
createBinaryBitmapFromMap(map, targetColorIdx, width, height, blurSigma10, dilatePixels, imageData, pal) ==
    LET n == width * height
        built(bitmap) ==
            [data |-> DilateTimes(filterSmallRegions(bitmap, width, height,
                                                     SmallRegionRatio),
                                  width, height, map, targetColorIdx,
                                  dilatePixels),
             width |-> width, height |-> height,
             inverted |-> FALSE,
             grayscale |->
                 gaussianBlur(
                     IF Len(pal) > 1
                     THEN Arr([i \in 1..n |->
                              IF MapTransparent(imageData.data[i]) THEN GreyMax
                              ELSE MixGrey(imageData.data[i], pal,
                                           targetColorIdx + 1, bitmap[i] = 1)])
                     ELSE Arr([i \in 1..n |->
                              IF bitmap[i] = 1 THEN 0 ELSE GreyMax]),
                     width, height, Min2(10, blurSigma10))]
    IN  built(Arr([i \in 1..n |-> IF map[i] = targetColorIdx THEN 1 ELSE 0]))

-----------------------------------------------------------------------------
(* contour-tracer.js: marchingSquaresContour.                               *)
(* Points are <<x, y>> in fixed point, Scale steps per pixel; an area is    *)
(* kept as the shoelace sum, which is 2 * Scale^2 times the area.           *)

Scale == 10 * 10
AreaUnit == 2 * Scale * Scale

\* twice the shoelace sum
calculateAreaTwice(points) ==
    LET n == Len(points)
    IN  2 * SumSeq([i \in 1..n |->
                LET j == (i % n) + 1
                IN  points[i][1] * points[j][2] - points[j][1] * points[i][2]])

\* calculateArea, as the shoelace sum over the cyclic point list
calculateArea(points) ==
    LET n == Len(points)
    IN  SumSeq([i \in 1..n |->
            LET j == (i % n) + 1
            IN  points[i][1] * points[j][2] - points[j][1] * points[i][2]])

getPixel(bm, x, y) ==
    IF x < 0 \/ x >= bm.width \/ y < 0 \/ y >= bm.height THEN 0
    ELSE bm.data[y * bm.width + x + 1]

\* getGray with a grey map at hand: 0 outside the image
getGray(bm, x, y) ==
    IF x < 0 \/ x >= bm.width \/ y < 0 \/ y >= bm.height THEN 0
    ELSE bm.grayscale[y * bm.width + x + 1]

\* (tl << 3) | (tr << 2) | (br << 1) | bl
getConfig(bm, cx, cy) ==
    8 * getPixel(bm, cx, cy) + 4 * getPixel(bm, cx + 1, cy)
    + 2 * getPixel(bm, cx + 1, cy + 1) + getPixel(bm, cx, cy + 1)

ContourThreshold == 128

\* interpolate(v1, v2, 128): position on the edge in steps of 1 / Scale,
\* 0.5 when the greys differ by less than one level, else clamped to
\* [0.1, 0.9]
interpolate(v1, v2) ==
    LET num0 == ContourThreshold * GreyUnit - v1
        den0 == v2 - v1
        num == IF den0 < 0 THEN -num0 ELSE num0
        den == Abs(den0)
    IN  IF den < GreyUnit THEN Scale \div 2
        ELSE IF num <= 0 THEN Scale \div 10
        ELSE Clamp(RoundDiv(num * Scale, den), Scale \div 10,
                   (9 * Scale) \div 10)

\* edges: 0 = top, 1 = right, 2 = bottom, 3 = left
edgePoint(bm, cx, cy, edge) ==
    CASE edge = 0 ->
           <<cx * Scale + interpolate(getGray(bm, cx, cy),
                                      getGray(bm, cx + 1, cy)),
             cy * Scale>>
      [] edge = 1 ->
           <<(cx + 1) * Scale,
             cy * Scale + interpolate(getGray(bm, cx + 1, cy),
                                      getGray(bm, cx + 1, cy + 1))>>
      [] edge = 2 ->
           <<cx * Scale + interpolate(getGray(bm, cx, cy + 1),
                                      getGray(bm, cx + 1, cy + 1)),
             (cy + 1) * Scale>>
      [] edge = 3 ->
           <<cx * Scale,
             cy * Scale + interpolate(getGray(bm, cx, cy),
                                      getGray(bm, cx, cy + 1))>>

\* edgeTable[config]: the <<entry edge, exit edge>> pairs of a cell
edgeTable ==
    [c \in 0..15 |->
        CASE c = 1 -> <<<<3, 2>>>>
          [] c = 2 -> <<<<2, 1>>>>
          [] c = 3 -> <<<<3, 1>>>>
          [] c = 4 -> <<<<1, 0>>>>
          [] c = 5 -> <<<<1, 0>>, <<3, 2>>>>
          [] c = 6 -> <<<<2, 0>>>>
          [] c = 7 -> <<<<3, 0>>>>
          [] c = 8 -> <<<<0, 3>>>>
          [] c = 9 -> <<<<0, 2>>>>
          [] c = 10 -> <<<<0, 3>>, <<2, 1>>>>
          [] c = 11 -> <<<<0, 1>>>>
          [] c = 12 -> <<<<1, 3>>>>
          [] c = 13 -> <<<<1, 2>>>>
          [] c = 14 -> <<<<2, 3>>>>
          [] OTHER -> <<>>]

\* nextCell[outEdge] and enterEdge[outEdge], for edges 0..3
nextCell == <<<<0, -1>>, <<1, 0>>, <<0, 1>>, <<-1, 0>>>>
enterEdge == <<2, 3, 0, 1>>

\* one pass through the body of traceContour's do-while loop, and its
\* loop condition; exit tells which break or which half of the loop
\* condition has ended the walk
TraceStep(bm, st, start) ==
    LET key == <<st.cx, st.cy, st.outEdge>>
        ncx == st.cx + nextCell[st.outEdge + 1][1]
        ncy == st.cy + nextCell[st.outEdge + 1][2]
        inEdge == enterEdge[st.outEdge + 1]
        edges == edgeTable[getConfig(bm, ncx, ncy)]
        match == {k \in 1..Len(edges) : edges[k][1] = inEdge}
        first == CHOOSE k \in match : \A q \in match : k <= q
        moved == [st EXCEPT !.visited = @ \cup {key},
                            !.points = Append(@, edgePoint(bm, st.cx, st.cy,
                                                           st.outEdge)),
                            !.cx = ncx, !.cy = ncy]
        maxSteps == (bm.width + bm.height) * 4
        atStart(outEdge) ==
            ncx = start[1] /\ ncy = start[2] /\ outEdge = start[3]
    IN  IF st.done THEN st
        ELSE IF key \in st.visited
        THEN [st EXCEPT !.done = TRUE, !.exit = "visited"]
        ELSE IF match = {}
        THEN [moved EXCEPT !.done = TRUE,
                           !.exit = IF edges = <<>> THEN "no boundary"
                                    ELSE "no transition"]
        ELSE [moved EXCEPT
                !.outEdge = edges[first][2],
                !.steps = @ + 1,
                !.done = ~(/\ st.steps + 1 < maxSteps
                           /\ ~atStart(edges[first][2])),
                !.exit = IF atStart(edges[first][2]) THEN "start"
                         ELSE IF st.steps + 1 < maxSteps THEN "none"
                         ELSE "maxSteps"]

\* 2^k passes through the loop, or as many as it takes to leave it
RECURSIVE TraceRun(_, _, _, _)
TraceRun(bm, st, start, k) ==
    IF k = 0 THEN TraceStep(bm, st, start)
    ELSE LET half == TraceRun(bm, st, start, k - 1)
         IN  IF half.done THEN half ELSE TraceRun(bm, half, start, k - 1)

\* the least k with 2^k >= n
RECURSIVE Log2Ceil(_)
Log2Ceil(n) == IF n <= 1 THEN 0 ELSE 1 + Log2Ceil((n + 1) \div 2)

\* traceContour: the points and the visited edges it leaves behind
traceContour(bm, visited, startCx, startCy, startOutEdge) ==
    TraceRun(bm,
             [cx |-> startCx, cy |-> startCy, outEdge |-> startOutEdge,
              points |-> <<>>, visited |-> visited, steps |-> 0,
              done |-> FALSE, exit |-> "none"],
             <<startCx, startCy, startOutEdge>>,
             Log2Ceil((bm.width + bm.height) * 4 + 1))

\* what one call of traceContour has done: where it started, the edges it
\* has marked visited, how it ended and whether its points became a contour
Walk(cx, cy, outEdge, tr) ==
    [start |-> <<cx, cy, outEdge>>, exit |-> tr.exit, steps |-> tr.steps,
     kept |-> Len(tr.points) >= 3]

\* a scan that leaves the traced points as they are, without the closing
\* copy of the first point
ScanEdgeOpen(bm, cx, cy, outEdge, st) ==
    LET closed(tr, area) ==
            IF Len(tr.points) >= 3
            THEN [visited |-> tr.visited,
                  walks |-> Append(st.walks, Walk(cx, cy, outEdge, tr)),
                  contours |-> Append(st.contours,
                      [points |-> tr.points,
                       type |-> IF area >= 0 THEN "outer" ELSE "inner",
                       area |-> area])]
            ELSE [visited |-> tr.visited,
                  walks |-> Append(st.walks, Walk(cx, cy, outEdge, tr)),
                  contours |-> st.contours]
        traced(tr) == closed(tr, calculateArea(tr.points))
    IN  IF <<cx, cy, outEdge>> \in st.visited THEN st
        ELSE traced(traceContour(bm, st.visited, cx, cy, outEdge))

\* the scan at one cell and one of its boundary lines
ScanEdge(bm, cx, cy, outEdge, st) ==
    LET closed(tr, pts, area) ==
            IF Len(tr.points) >= 3
            THEN [visited |-> tr.visited,
                  walks |-> Append(st.walks, Walk(cx, cy, outEdge, tr)),
                  contours |-> Append(st.contours,
                      [points |-> pts,
                       type |-> IF area >= 0 THEN "outer" ELSE "inner",
                       area |-> area])]
            ELSE [visited |-> tr.visited,
                  walks |-> Append(st.walks, Walk(cx, cy, outEdge, tr)),
                  contours |-> st.contours]
        measured(tr, pts) == closed(tr, pts, calculateArea(pts))
        traced(tr) == measured(tr, Append(tr.points, tr.points[1]))
    IN  IF <<cx, cy, outEdge>> \in st.visited THEN st
        ELSE traced(traceContour(bm, st.visited, cx, cy, outEdge))

\* the cells of the scan in its order, rows from cy = -1 and columns from
\* cx = -1, each with the exit edges of its configuration in table order:
\* the <<cx, cy, outEdge>> at which the scan looks for a new contour
ScanCell(bm, k) ==
    LET cx == (k % (bm.width + 1)) - 1
        cy == (k \div (bm.width + 1)) - 1
        exits(edges) == [j \in 1..Len(edges) |-> <<cx, cy, edges[j][2]>>]
    IN  exits(edgeTable[getConfig(bm, cx, cy)])

ScanOrder(bm) ==
    Flatten([k \in 1..((bm.width + 1) * (bm.height + 1)) |-> ScanCell(bm, k - 1)],
            1, (bm.width + 1) * (bm.height + 1))

\* the scan from the first exit edge that is not visited yet: every edge
\* before it is visited and is passed over, and a traced edge is visited
RECURSIVE ScanCells(_, _, _)
ScanCells(bm, order, st) ==
    LET open == {i \in 1..Len(order) : order[i] \notin st.visited}
        first == CHOOSE i \in open : \A j \in open : i <= j
        next(s1) == IF Len(s1.contours) >= 0
                    THEN ScanCells(bm, order, s1) ELSE s1
    IN  IF open = {} THEN st
        ELSE next(ScanEdge(bm, order[first][1], order[first][2],
                           order[first][3], st))

\* contours.sort((a, b) => Math.abs(b.area) - Math.abs(a.area))
SortByArea(contours) ==
    SortByKey(contours, [i \in 1..Len(contours) |-> -Abs(contours[i].area)])

\* the scan of all cells: the contours in the order found, and the walks
marchingSquaresScan(bm) ==
    ScanCells(bm, ScanOrder(bm),
              [visited |-> {}, walks |-> <<>>, contours |-> <<>>])

marchingSquaresContour(bm) == SortByArea(marchingSquaresScan(bm).contours)

-----------------------------------------------------------------------------
(* path-walker.js: traceContoursVTracer *)

\* the 8 directions, clockwise from the right
DX8 == <<1, 1, 0, -1, -1, -1, 0, 1>>
DY8 == <<0, 1, 1, 1, 0, -1, -1, -1>>

\* the first direction, searching clockwise from searchDir, that leads to a
\* foreground pixel; -1 when there is none
FindDir(bm, x, y, searchDir) ==
    LET hits == {i \in 0..7 :
                    getPixel(bm, x + DX8[((searchDir + i) % 8) + 1],
                                 y + DY8[((searchDir + i) % 8) + 1]) = 1}
        i0 == CHOOSE i \in hits : \A q \in hits : i <= q
    IN  IF hits = {} THEN -1 ELSE (searchDir + i0) % 8

\* one pass through the body of the Moore trace's do-while loop. marked is
\* the set of pixels whose marker is 2.
WalkStep(bm, st) ==
    LET idx == st.y * bm.width + st.x + 1
        foundDir == FindDir(bm, st.x, st.y, st.searchDir)
        nx == st.x + DX8[foundDir + 1]
        ny == st.y + DY8[foundDir + 1]
        pts == IF st.prevDir # foundDir
               THEN Append(st.points, <<st.x * Scale, st.y * Scale>>)
               ELSE st.points
        firstX == IF st.firstX < 0 THEN st.x ELSE st.firstX
        firstY == IF st.firstX < 0 THEN st.y ELSE st.firstY
        back == nx = firstX /\ ny = firstY /\ st.iter + 1 > 1
    IN  IF st.done THEN st
        ELSE IF foundDir = -1
        THEN [st EXCEPT !.marked = @ \cup {idx},
                        !.points = IF @ = <<>>
                                   THEN <<<<st.x * Scale, st.y * Scale>>>>
                                   ELSE @,
                        !.done = TRUE]
        ELSE [st EXCEPT !.marked = @ \cup {idx},
                        !.points = pts,
                        !.prevDir = foundDir,
                        !.firstX = firstX, !.firstY = firstY,
                        !.x = nx, !.y = ny,
                        !.searchDir = (foundDir + 5) % 8,
                        !.iter = @ + 1,
                        !.done = back \/ ~(st.iter + 1 < Len(bm.data))]

RECURSIVE WalkRun(_, _, _)
WalkRun(bm, st, k) ==
    IF k = 0 THEN WalkStep(bm, st)
    ELSE LET half == WalkRun(bm, st, k - 1)
         IN  IF half.done THEN half ELSE WalkRun(bm, half, k - 1)

\* the Moore trace from (startX, startY)
walkContour(bm, marked, startX, startY, isOuter) ==
    WalkRun(bm,
            [x |-> startX, y |-> startY,
             searchDir |-> IF isOuter THEN 7 ELSE 3, prevDir |-> -1,
             firstX |-> -1, firstY |-> -1, iter |-> 0, points |-> <<>>,
             marked |-> marked, done |-> FALSE],
            Log2Ceil(Len(bm.data) + 1))

MaxWalkContours == 10000

\* the scan at pixel index i (1-based): a contour may start there
WalkPixel(bm, i, st) ==
    LET x == (i - 1) % bm.width
        y == (i - 1) \div bm.width
        pixel == bm.data[i]
        prevPixel == IF x = 0 THEN 0 ELSE bm.data[i - 1]
        outerStart == pixel = 1 /\ prevPixel = 0 /\ i \notin st.marked
        innerStart == pixel = 0 /\ prevPixel = 1 /\ (i - 1) \notin st.marked
        closed(tr, pts, area) ==
            IF Len(tr.points) >= 3
            THEN [marked |-> tr.marked,
                  contours |-> Append(st.contours,
                      [points |-> pts,
                       type |-> IF outerStart THEN "outer" ELSE "inner",
                       area |-> IF outerStart THEN area ELSE -area])]
            ELSE [marked |-> tr.marked, contours |-> st.contours]
        measured(tr, pts) == closed(tr, pts, Abs(calculateArea(pts)))
        traced(tr) == measured(tr, Append(tr.points, tr.points[1]))
    IN  IF Len(st.contours) > MaxWalkContours THEN st
        ELSE IF ~(outerStart \/ innerStart) THEN st
        ELSE traced(walkContour(bm, st.marked,
                                IF outerStart THEN x ELSE x - 1, y,
                                outerStart))

RECURSIVE WalkPixels(_, _, _, _)
WalkPixels(bm, lo, hi, st) ==
    IF lo > hi THEN st
    ELSE IF lo = hi THEN WalkPixel(bm, lo, st)
    ELSE LET mid == (lo + hi) \div 2
             half == WalkPixels(bm, lo, mid, st)
         IN  IF Len(half.contours) >= 0
             THEN WalkPixels(bm, mid + 1, hi, half) ELSE half

traceContoursVTracer(bm) ==
    SortByArea(WalkPixels(bm, 1, Len(bm.data),
                          [marked |-> {}, contours |-> <<>>]).contours)

-----------------------------------------------------------------------------
(* path-smooth.js: simplification. Squared distances are fractions          *)
(* [num |-> limbs, den |-> natural] of squared steps.                       *)

FracLess(f, g) ==
    LimbsLess(MulLimbs(f.num, ToLimbs(g.den)), MulLimbs(g.num, ToLimbs(f.den)))

NatFrac(n) == [num |-> ToLimbs(n), den |-> 1]

\* the square of perpendicularDistance(point, lineStart, lineEnd): the
\* distance to the segment, the projection being clamped to its ends
perpendicularDistance(point, lineStart, lineEnd) ==
    LET dx == lineEnd[1] - lineStart[1]
        dy == lineEnd[2] - lineStart[2]
        lineLenSq == dx * dx + dy * dy
        ax == point[1] - lineStart[1]
        ay == point[2] - lineStart[2]
        bx == point[1] - lineEnd[1]
        by == point[2] - lineEnd[2]
        dot == ax * dx + ay * dy
        cross == Abs(ax * dy - ay * dx)
    IN  IF lineLenSq = 0 \/ dot <= 0 THEN NatFrac(ax * ax + ay * ay)
        ELSE IF dot >= lineLenSq THEN NatFrac(bx * bx + by * by)
        ELSE [num |-> MulLimbs(ToLimbs(cross), ToLimbs(cross)),
              den |-> lineLenSq]

\* the loop of simplifyRadialDist over points[lo..hi]
RECURSIVE RadialPass(_, _, _, _, _)
RadialPass(points, lo, hi, st, sqTolerance) ==
    IF lo > hi THEN st
    ELSE IF lo = hi
    THEN LET dx == points[lo][1] - points[st.prev][1]
             dy == points[lo][2] - points[st.prev][2]
         IN  IF dx * dx + dy * dy > sqTolerance
             THEN [prev |-> lo, kept |-> Append(st.kept, points[lo])]
             ELSE st
    ELSE LET mid == (lo + hi) \div 2
             half == RadialPass(points, lo, mid, st, sqTolerance)
         IN  IF half.prev >= 1
             THEN RadialPass(points, mid + 1, hi, half, sqTolerance)
             ELSE half

\* sqTolerance is in squared steps
simplifyRadialDist(points, sqTolerance) ==
    LET n == Len(points)
        st == RadialPass(points, 2, n, [prev |-> 1, kept |-> <<points[1]>>],
                         sqTolerance)
    IN  IF n <= 2 THEN points
        ELSE IF st.prev # n THEN Append(st.kept, points[n])
        ELSE st.kept

\* the point of points[a..b] farthest from the line points[lo]-points[hi]:
\* the first one at the largest distance; idx = 0 when all distances are 0.
\* The loop over a..b is cut into eight runs, the best of each compared in
\* index order.
RECURSIVE RDPMax(_, _, _, _, _)
RDPMax(points, lo, hi, a, b) ==
    LET none == [idx |-> 0, dist |-> NatFrac(0)]
        at(i, d) == IF d.den >= 1 /\ FracLess(NatFrac(0), d)
                    THEN [idx |-> i, dist |-> d] ELSE none
        one(i) == IF i > b THEN none
                  ELSE at(i, perpendicularDistance(points[i], points[lo],
                                                   points[hi]))
        farther(left, right) ==
            IF left.idx >= 0 /\ right.idx >= 0
               /\ FracLess(left.dist, right.dist)
            THEN right ELSE left
        best(r) ==
            IF Len(r) < 8 THEN none
            ELSE farther(farther(farther(r[1], r[2]), farther(r[3], r[4])),
                         farther(farther(r[5], r[6]), farther(r[7], r[8])))
        w == CeilDiv(b - a + 1, 8)
    IN  IF a > b THEN none
        ELSE IF b - a < 8 THEN best(Arr([j \in 1..8 |-> one(a + j - 1)]))
        ELSE best(Arr([j \in 1..8 |->
                          RDPMax(points, lo, hi, a + (j - 1) * w,
                                 Min2(b, a + j * w - 1))]))

\* simplifyRDP on the slice points[lo..hi]; epsilon is in steps
RECURSIVE RDPSlice(_, _, _, _)
RDPSlice(points, lo, hi, epsilon) ==
    LET joined(left, right) == SubSeq(left, 1, Len(left) - 1) \o right
        split(m) ==
            IF m.idx >= 0 /\ FracLess(NatFrac(epsilon * epsilon), m.dist)
            THEN joined(RDPSlice(points, lo, m.idx, epsilon),
                        RDPSlice(points, m.idx, hi, epsilon))
            ELSE <<points[lo], points[hi]>>
    IN  IF hi - lo + 1 < 3 THEN SubSeq(points, lo, hi)
        ELSE split(RDPMax(points, lo, hi, lo + 1, hi - 1))

simplifyRDP(points, epsilon) == RDPSlice(points, 1, Len(points), epsilon)

\* tolerance is in steps; half the squared tolerance goes to the radial pass
reduceVTracer(points, tolerance) ==
    LET rdp(radial) == IF Len(radial) >= 0 THEN simplifyRDP(radial, tolerance)
                       ELSE radial
    IN  IF Len(points) <= 2 \/ tolerance = 0 THEN points
        ELSE rdp(simplifyRadialDist(points, (tolerance * tolerance) \div 2))

\* the first point of points[a..b] farthest from points[1]; 1 when none is
\* at a positive distance
RECURSIVE SplitIndex(_, _, _)
SplitIndex(points, a, b) ==
    LET d(i) == (points[i][1] - points[1][1]) * (points[i][1] - points[1][1])
              + (points[i][2] - points[1][2]) * (points[i][2] - points[1][2])
    IN  IF a > b THEN 1
        ELSE IF a = b THEN (IF d(a) > 0 THEN a ELSE 1)
        ELSE LET mid == (a + b) \div 2
                 left == SplitIndex(points, a, mid)
                 right == SplitIndex(points, mid + 1, b)
             IN  IF d(right) > d(left) THEN right ELSE left

simplifyRDPClosed(points, epsilon) ==
    LET n == Len(points)
        joined(simplified1, simplified2) ==
            SubSeq(simplified1, 1, Len(simplified1) - 1)
            \o SubSeq(simplified2, 1, Len(simplified2) - 1)
        split(splitIndex) ==
            joined(simplifyRDP(SubSeq(points, 1, splitIndex), epsilon),
                   simplifyRDP(Append(SubSeq(points, splitIndex, n), points[1]),
                               epsilon))
    IN  IF n < 4 THEN points
        ELSE split(SplitIndex(points, 2, n))

-----------------------------------------------------------------------------
(* index.js corner detection; path-smooth.js smoothing and path emission.   *)
(* The code multiplies the points of a small contour by upscale, works on   *)
(* them and divides them back; here the points stay in steps of the source  *)
(* scale and the lengths they are compared with are divided by upscale.     *)

CornerAngle == 140
\* cos(140 deg) squared, as numerator and denominator
CornerCosSq == <<586824, 1000000>>

\* the angle at curr between prev and next is below CornerAngle
isCornerAt(prev, curr, next) ==
    LET v1x == prev[1] - curr[1]
        v1y == prev[2] - curr[2]
        v2x == next[1] - curr[1]
        v2y == next[2] - curr[2]
        dot == v1x * v2x + v1y * v2y
        len1Sq == v1x * v1x + v1y * v1y
        len2Sq == v2x * v2x + v2y * v2y
    IN  /\ len1Sq > 0
        /\ len2Sq > 0
        /\ \/ dot >= 0
           \/ LimbsLess(
                  MulLimbs(MulLimbs(ToLimbs(-dot), ToLimbs(-dot)),
                           ToLimbs(CornerCosSq[2])),
                  MulLimbs(MulLimbs(ToLimbs(len1Sq), ToLimbs(len2Sq)),
                           ToLimbs(CornerCosSq[1])))

\* the indices (from 1) of the corner points of the closed polyline pts
cornerIndices(pts) ==
    LET n == Len(pts)
    IN  {i \in 1..n :
            isCornerAt(pts[((i - 2 + n) % n) + 1], pts[i], pts[(i % n) + 1])}

\* the point (wa * a + wb * b) / (wa + wb), to the nearest step
Blend(a, wa, b, wb) ==
    <<RoundDiv(wa * a[1] + wb * b[1], wa + wb),
      RoundDiv(wa * a[2] + wb * b[2], wa + wb)>>

ChaikinPass(pts) ==
    LET n == Len(pts)
    IN  Arr([k \in 1..(2 * n) |->
            LET i == (k + 1) \div 2
                p0 == pts[i]
                p1 == pts[(i % n) + 1]
            IN  IF k % 2 = 1 THEN Blend(p0, 3, p1, 1) ELSE Blend(p0, 1, p1, 3)])

RECURSIVE chaikinSmooth(_, _)
chaikinSmooth(points, iterations) ==
    IF Len(points) < 3 \/ iterations = 0 THEN points
    ELSE chaikinSmooth(ChaikinPass(points), iterations - 1)

\* p0 lies within half a pixel of the scaled contour of a corner
NearCorner(p0, corners, upscale) ==
    \E c \in corners :
        /\ 2 * upscale * Abs(p0[1] - c[1]) < Scale
        /\ 2 * upscale * Abs(p0[2] - c[2]) < Scale

\* the pass that cuts every corner, the marked ones too
PreservePassPlain(pts, corners, upscale) ==
    LET n == Len(pts)
    IN  Arr([k \in 1..(2 * n) |->
            LET i == (k + 1) \div 2
                p0 == pts[i]
                p1 == pts[(i % n) + 1]
            IN  IF k % 2 = 1 THEN Blend(p0, 3, p1, 1)
                ELSE Blend(p0, 1, p1, 3)])

PreservePass(pts, corners, upscale) ==
    LET n == Len(pts)
    IN  Arr([k \in 1..(2 * n) |->
            LET i == (k + 1) \div 2
                p0 == pts[i]
                p1 == pts[(i % n) + 1]
            IN  IF NearCorner(p0, corners, upscale)
                THEN (IF k % 2 = 1 THEN p0 ELSE Blend(p0, 1, p1, 1))
                ELSE (IF k % 2 = 1 THEN Blend(p0, 3, p1, 1)
                      ELSE Blend(p0, 1, p1, 3))])

RECURSIVE PreserveLoop(_, _, _, _)
PreserveLoop(pts, iterations, corners, upscale) ==
    IF iterations = 0 THEN pts
    ELSE PreserveLoop(PreservePass(pts, corners, upscale), iterations - 1,
                      corners, upscale)

chaikinSmoothPreserveCorners(points, iterations, cornerIdx, upscale) ==
    IF Len(points) < 3 THEN points
    ELSE IF cornerIdx = {} THEN chaikinSmooth(points, iterations)
    ELSE PreserveLoop(points, iterations, {points[i] : i \in cornerIdx},
                      upscale)

\* Number.prototype.toFixed(digits) of n / d steps, for d > 0 and digits 1
\* or 2: the decimal it prints, in hundredths of a pixel. Halves round away
\* from zero.
toFixed(n, d, digits) ==
    LET unit == IF digits = 1 THEN 10 ELSE 1
        q == RoundDiv(Abs(n) * 100, d * Scale * unit) * unit
    IN  IF n < 0 THEN -q ELSE q

\* a path is a record of its commands and of the numbers it prints
PathPoint(p, digits) == <<toFixed(p[1], 1, digits), toFixed(p[2], 1, digits)>>

generatePolygonPath(points) ==
    IF Len(points) < 2 THEN [cmds |-> <<>>, nums |-> <<>>]
    ELSE [cmds |-> <<"M">> \o [i \in 1..(Len(points) - 1) |-> "L"] \o <<"Z">>,
          nums |-> [k \in 1..(2 * Len(points)) |->
                       PathPoint(points[(k + 1) \div 2], 1)[2 - (k % 2)]]]

\* tension / 3 for the tension 0.2 that vectorize passes, as a fraction
CatmullTension == <<2, 30>>

fitBezierCatmullRom(points) ==
    LET last == points[Len(points)]
        closed == /\ Len(points) > 2
                  /\ 2 * Abs(points[1][1] - last[1]) < Scale
                  /\ 2 * Abs(points[1][2] - last[2]) < Scale
        pts == IF closed THEN SubSeq(points, 1, Len(points) - 1) ELSE points
        n == Len(pts)
        at(i) == pts[(i % n) + 1]
        tn == CatmullTension[1]
        td == CatmullTension[2]
        seg(i) ==
            LET p0 == at(i - 1 + n)
                p1 == at(i)
                p2 == at(i + 1)
                p3 == at(i + 2)
                end == PathPoint(p2, 1)
            IN  IF i = 0 /\ ~closed THEN [cmd |-> <<"L">>, nums |-> end]
                ELSE IF i < n - 1 \/ closed
                THEN [cmd |-> <<"C">>,
                      nums |-> <<toFixed(td * p1[1] + tn * (p2[1] - p0[1]), td, 1),
                                 toFixed(td * p1[2] + tn * (p2[2] - p0[2]), td, 1),
                                 toFixed(td * p2[1] - tn * (p3[1] - p1[1]), td, 1),
                                 toFixed(td * p2[2] - tn * (p3[2] - p1[2]), td, 1)>>
                               \o end]
                ELSE [cmd |-> <<>>, nums |-> <<>>]
        segs == Arr([k \in 1..n |-> seg(k - 1)])
    IN  IF n < 3
        THEN [cmds |-> <<"M", "L", "Z">>,
              nums |-> PathPoint(pts[1], 1) \o PathPoint(pts[n], 1)]
        ELSE [cmds |-> <<"M">>
                       \o Flatten([k \in 1..n |-> segs[k].cmd], 1, n)
                       \o <<"Z">>,
              nums |-> PathPoint(pts[1], 1)
                       \o Flatten([k \in 1..n |-> segs[k].nums], 1, n)]

\* retractHandles(curve, {maxRatio: 0.6, minRatio: 0.7, smallThreshold: 25})
\* on a curve <<p0, cp1, cp2, p3>> in steps; lengths are taken to the step
RetractMaxRatio10 == 6
RetractMinRatio10 == 7
RetractSmallThreshold == 25
RetractMinHandleLen == 2

retractHandles(curve) ==
    LET p0 == curve[1]
        cp1 == curve[2]
        cp2 == curve[3]
        p3 == curve[4]
        sq(a, b) == (a[1] - b[1]) * (a[1] - b[1]) + (a[2] - b[2]) * (a[2] - b[2])
        chordSq == sq(p3, p0)
        chordLen == ISqrt(chordSq)
        ratio10 == IF chordSq < RetractSmallThreshold * Scale
                                * RetractSmallThreshold * Scale
                   THEN RetractMinRatio10 ELSE RetractMaxRatio10
        maxLen == Max2(RetractMinHandleLen * Scale, (chordLen * ratio10) \div 10)
        tooLong(lSq) ==
            /\ lSq > RetractMinHandleLen * Scale * RetractMinHandleLen * Scale
            /\ LimbsLess(MulLimbs(ToLimbs(chordSq), ToLimbs(ratio10 * ratio10)),
                         MulLimbs(ToLimbs(lSq), ToLimbs(100)))
            /\ lSq > 1
        pull(from, cp) ==
            LET l == ISqrt(sq(cp, from))
            IN  IF tooLong(sq(cp, from))
                THEN <<from[1] + RoundDiv((cp[1] - from[1]) * maxLen, l),
                       from[2] + RoundDiv((cp[2] - from[2]) * maxLen, l)>>
                ELSE cp
    IN  IF chordSq < 2 * Scale * 2 * Scale THEN curve
        ELSE <<p0, pull(p0, cp1), pull(p3, cp2), p3>>

\* what the fit-curve library is taken to return when it returns curves: one
\* cubic per pair of consecutive points, its handles a third of the chord
FitCurveResult(pts) ==
    Arr([i \in 1..(Len(pts) - 1) |->
        LET a == pts[i]
            b == pts[i + 1]
            hx == RoundDiv(b[1] - a[1], 3)
            hy == RoundDiv(b[2] - a[2], 3)
        IN  <<a, <<a[1] + hx, a[2] + hy>>, <<b[1] - hx, b[2] - hy>>, b>>])

\* the path vectorize prints from the curves of fit-curve
FitCurvePath(curves) ==
    LET n == Len(curves)
    IN  [cmds |-> <<"M">> \o [i \in 1..n |-> "C"] \o <<"Z">>,
         nums |-> PathPoint(curves[1][1], 2)
                  \o Flatten([i \in 1..n |->
                                 PathPoint(curves[i][2], 2)
                                 \o PathPoint(curves[i][3], 2)
                                 \o PathPoint(curves[i][4], 2)], 1, n)]

-----------------------------------------------------------------------------
(* index.js: vectorize, the layer loop. Areas are in AreaUnit per pixel.    *)

\* totalArea / parts in AreaUnit, rounded down, without a product that
\* leaves the 32-bit range
PerMille(totalArea, parts) ==
    (totalArea \div parts) * AreaUnit
    + ((totalArea % parts) * AreaUnit) \div parts

\* the noise floor of a layer; totalArea = width * height
\* the noise floor with 0.01% of the image for the logo preset too
minNoiseAreaPlain(opts, totalArea) ==
    IF isPixelArt(opts) THEN AreaUnit
    ELSE Max2(4 * AreaUnit,
              Min2(50 * AreaUnit, PerMille(totalArea, 10000)))

minNoiseArea(opts, totalArea) ==
    IF isPixelArt(opts) THEN AreaUnit
    ELSE IF opts.preset = "logo"
    THEN Max2(25 * AreaUnit,
              Min2(200 * AreaUnit, PerMille(totalArea, 1000)))
    ELSE Max2(4 * AreaUnit,
              Min2(50 * AreaUnit, PerMille(totalArea, 10000)))

shouldCheckFragmented(opts) ==
    (~isPixelArt(opts) /\ opts.numColors <= 8) \/ opts.preset = "logo"

isFragmented(contours, imageArea) ==
    LET areas == [i \in 1..Len(contours) |-> Abs(contours[i].area)]
    IN  /\ Len(contours) > 10
        /\ SumSeq(areas) < (imageArea * AreaUnit) \div 200
        /\ \A i \in 1..Len(contours) : areas[i] < 300 * AreaUnit

\* Math.max(0, Math.round(smoothness))
smoothIter(opts) == Max2(0, RoundDiv(opts.smoothness10, 10))

\* the body of the contour loop up to the curve fit: the contour is
\* skipped, or printed as a polygon, or handed to the fit with its
\* simplified and smoothed points
ContourStage(contour, opts, minNoise) ==
    LET contourArea == Abs(contour.area)
        isHole == contour.type = "inner" \/ contour.area < 0
        minHoleArea == Max2(2 * AreaUnit, minNoise \div 2)
        mediumContourArea == Max2(30 * AreaUnit, minNoise * 3)
        perimeter == Len(contour.points)
        isSmall == contourArea < 500 * AreaUnit \/ perimeter < 40
        upscale == IF isSmall THEN 3 ELSE 1
        dynamicEpsilon == IF perimeter < 50 THEN (4 * Scale) \div 10
                          ELSE IF perimeter < 100 THEN (5 * Scale) \div 10
                          ELSE (6 * Scale) \div 10
        skip == [kind |-> "skip"]
        printed(pathD) == IF pathD.cmds = <<>> THEN skip
                          ELSE [kind |-> "path", path |-> pathD]
        polygon(points) == printed(generatePolygonPath(points))
        fitted(pts) == IF Len(pts) < 3 THEN skip
                       ELSE [kind |-> "fit", pts |-> pts, isHole |-> isHole]
        rounded(reduced, corners) ==
            fitted(IF Cardinality(corners) >= 0
                   THEN chaikinSmoothPreserveCorners(reduced, smoothIter(opts),
                                                     corners, upscale)
                   ELSE reduced)
        smoothed(reduced) ==
            IF Len(reduced) >= 0 /\ smoothIter(opts) > 0
            THEN rounded(reduced, cornerIndices(reduced))
            ELSE fitted(reduced)
    IN  IF perimeter < 3 THEN skip
        ELSE IF isPixelArt(opts)
        THEN IF 2 * contourArea < AreaUnit THEN skip
             ELSE polygon(simplifyRDPClosed(contour.points,
                                            (75 * Scale) \div 100))
        ELSE IF ~isHole /\ contourArea < minNoise THEN skip
        ELSE IF isHole /\ contourArea < minHoleArea THEN skip
        ELSE IF contourArea < mediumContourArea \/ perimeter < 12
        THEN polygon(contour.points)
        ELSE smoothed(reduceVTracer(contour.points, dynamicEpsilon))

\* what a call of the global fitCurve can do
FitCurveOutcomes == {"throws", "empty", "curves"}

\* the curve fit of one contour: fit-curve when the global exists and
\* returns curves, the Catmull-Rom fallback otherwise
FitStage(stage, hasFitCurve, outcome) ==
    LET fit(curves) ==
            IF hasFitCurve /\ outcome = "curves" /\ Len(curves) > 0
            THEN FitCurvePath(IF stage.isHole THEN curves
                              ELSE Arr([i \in 1..Len(curves) |->
                                          retractHandles(curves[i])]))
            ELSE fitBezierCatmullRom(stage.pts)
    IN  fit(FitCurveResult(stage.pts))

\* a fallback that tries the least-squares fit of path-smooth.js first
FitCallsLeastSquares(hasFitCurve, outcome) ==
    IF ~hasFitCurve THEN <<"fitBezierCatmullRom">>
    ELSE IF outcome = "curves" THEN <<"fitCurve">>
    ELSE <<"fitCurve", "fitSegmentCurve">>

\* the fit functions the contour loop calls for one contour, in their order
FitCalls(hasFitCurve, outcome) ==
    IF ~hasFitCurve THEN <<"fitBezierCatmullRom">>
    ELSE IF outcome = "curves" THEN <<"fitCurve">>
    ELSE <<"fitCurve", "fitBezierCatmullRom">>

\* what the curve fit of one contour did: whether fitCurve threw or
\* returned nothing, the functions called, whether a path was pushed
FitRecord(stage, hasFitCurve, outcome) ==
    [failed |-> hasFitCurve /\ outcome # "curves",
     calls |-> FitCalls(hasFitCurve, outcome),
     pushed |-> FitStage(stage, hasFitCurve, outcome).cmds # <<>>]

FitRecords(staged, hasFitCurve, outcome) ==
    LET fits == SelectSeq(staged.stages, LAMBDA st : st.kind = "fit")
    IN  IF staged.skipped THEN <<>>
        ELSE Arr([i \in 1..Len(fits) |->
                     FitRecord(fits[i], hasFitCurve, outcome)])

\* the bitmap of the layer of palette index idx (0-based)
LayerBitmap(opts, img, map, pal, idx, otsu) ==
    IF useLuminance(opts)
    THEN createBinaryBitmap(img, pal[idx + 1], opts.colorTolerance,
                            TRUE, otsu, opts.blurSigma10, opts.morphology)
    ELSE createBinaryBitmapFromMap(map, idx, img.width, img.height,
                                   opts.blurSigma10, 0, img, pal)

\* its contours; none when the loop body is left before the contour loop
LayerContours(opts, bitmap) ==
    LET totalArea == bitmap.width * bitmap.height
        traced(contours) ==
            IF shouldCheckFragmented(opts) /\ isFragmented(contours, totalArea)
            THEN [skipped |-> TRUE, contours |-> <<>>]
            ELSE [skipped |-> FALSE, contours |-> contours]
    IN  IF SumSeq(bitmap.data)
           < (IF isPixelArt(opts) THEN 1 ELSE opts.minPathLength)
        THEN [skipped |-> TRUE, contours |-> <<>>]
        ELSE traced(IF opts.contourMethod = "vtracer"
                    THEN traceContoursVTracer(bitmap)
                    ELSE marchingSquaresContour(bitmap))

\* the stages of the contours of the layer of palette index idx (0-based);
\* skipped when the loop body is left before the contour loop
LayerStages(opts, img, map, pal, idx, otsu) ==
    LET minNoise == minNoiseArea(opts, img.width * img.height)
        staged(lc) ==
            [skipped |-> lc.skipped,
             stages |-> Arr([i \in 1..Len(lc.contours) |->
                               ContourStage(lc.contours[i], opts, minNoise)])]
    IN  staged(LayerContours(opts,
                             LayerBitmap(opts, img, map, pal, idx, otsu)))

\* the string `rgb(r,g,b)` of a colour
rgb(c) ==
    "rgb(" \o ToString(c[1]) \o "," \o ToString(c[2]) \o ","
           \o ToString(c[3]) \o ")"

\* the layers array after the loop body for palette index idx
LayerPush(ls, staged, opts, pal, idx, hasFitCurve, outcome) ==
    LET actualColor == IF useLuminance(opts) THEN <<0, 0, 0>> ELSE pal[idx + 1]
        useStroke == ~isPixelArt(opts)
        pushed(pathParts, colorStr) ==
            IF Len(pathParts) = 0 THEN ls
            ELSE Append(ls,
                    [color |-> colorStr,
                     colorRgb |-> actualColor,
                     paths |-> <<[d |-> pathParts,
                                  fill |-> colorStr,
                                  fillRule |-> IF useLuminance(opts)
                                               THEN "evenodd" ELSE "nonzero",
                                  stroke |-> IF useStroke THEN colorStr
                                             ELSE "none",
                                  strokeWidth |-> IF useStroke THEN 1 ELSE 0,
                                  strokeLineJoin |-> IF useStroke THEN "round"
                                                     ELSE "miter"]>>])
        parts(kept) ==
            pushed(Arr([i \in 1..Len(kept) |->
                          IF kept[i].kind = "path" THEN kept[i].path
                          ELSE FitStage(kept[i], hasFitCurve, outcome)]),
                   rgb(actualColor))
    IN  IF staged.skipped THEN ls
        ELSE parts(SelectSeq(staged.stages, LAMBDA st : st.kind # "skip"))

\* one iteration of the layer loop
\* the layer loop with a bitmap builder that marks the pixels it has used in
\* the shared pixel-colour map (254 = edge pixel)
LayerMarkingMap ==
    /\ pc = "layers"
    /\ colorIdx < Len(palette)
    /\ LET staged == LayerStages(options, image, pixelColorMap, palette,
                                 colorIdx, otsuThreshold)
       IN  \E outcome \in FitCurveOutcomes :
               /\ layers' = LayerPush(layers, staged, options, palette,
                                      colorIdx, fitCurveFn, outcome)
               /\ fitCalls' = FitRecords(staged, fitCurveFn, outcome)
    /\ colorIdx' = colorIdx + 1
    /\ pixelColorMap' = [i \in DOMAIN pixelColorMap |->
                            IF pixelColorMap[i] = colorIdx THEN 254
                            ELSE pixelColorMap[i]]
    /\ UNCHANGED <<pc, presetName, options, image, weightedColors, centers,
                   palette, currentPalette, changed, aliased,
                   otsuThreshold, result, fitCurveFn, libsLoaded, scripts, calls,
                   input, output>>

Layer ==
    /\ pc = "layers"
    /\ colorIdx < Len(palette)
    /\ LET staged == LayerStages(options, image, pixelColorMap, palette,
                                 colorIdx, otsuThreshold)
       IN  \E outcome \in FitCurveOutcomes :
               /\ layers' = LayerPush(layers, staged, options, palette,
                                      colorIdx, fitCurveFn, outcome)
               /\ fitCalls' = FitRecords(staged, fitCurveFn, outcome)
    /\ colorIdx' = colorIdx + 1
    /\ UNCHANGED <<pc, presetName, options, image, weightedColors, centers,
                   palette, currentPalette, changed, aliased, pixelColorMap,
                   otsuThreshold, result, fitCurveFn, libsLoaded, scripts, calls,
                   input, output>>

-----------------------------------------------------------------------------
(* index.js: vectorize, the layer filter and the result *)

\* the numbers the filter's regular expression finds in a path's d
PathNums(path) ==
    Flatten([i \in 1..Len(path.d) |-> path.d[i].nums], 1, Len(path.d))

\* the area of the bounding box of the number pairs, in squares of a
\* hundredth of a pixel; 0 when there are fewer than 4 numbers
BoundingBoxArea(nums) ==
    LET xs == {nums[i] : i \in {j \in 1..(Len(nums) - 1) : j % 2 = 1}}
        ys == {nums[i + 1] : i \in {j \in 1..(Len(nums) - 1) : j % 2 = 1}}
        min(S) == CHOOSE a \in S : \A b \in S : a <= b
        max(S) == CHOOSE a \in S : \A b \in S : a >= b
    IN  IF Len(nums) < 4 THEN 0
        ELSE (max(xs) - min(xs)) * (max(ys) - min(ys))

layerArea(layer) ==
    SumSeq([i \in 1..Len(layer.paths) |->
               BoundingBoxArea(PathNums(layer.paths[i]))])

globalMaxArea(ls) ==
    LET areas == {BoundingBoxArea(PathNums(ls[i].paths[j])) :
                     i \in 1..Len(ls), j \in {1}} \cup {0}
    IN  CHOOSE a \in areas : \A b \in areas : a >= b

\* layerArea >= minLayerArea, with
\* minLayerArea = Math.max(4, Math.min(100, globalMaxArea / 500))
PathUnitSq == 100 * 100
LayerKept(layer, opts, gmax) ==
    LET a == layerArea(layer)
    IN  \/ isPixelArt(opts)
        \/ /\ a >= 4 * PathUnitSq
           /\ \/ a >= 100 * PathUnitSq
              \/ a * 500 >= gmax

filteredLayers(ls, opts) ==
    SelectSeq(ls, LAMBDA layer : LayerKept(layer, opts, globalMaxArea(ls)))

\* the layers left in their order
Unreversed(s) == s

Reverse(s) == Arr([i \in 1..Len(s) |-> s[Len(s) + 1 - i]])

\* the end of the layer loop, the filter and the return
Finish ==
    /\ pc = "layers"
    /\ colorIdx >= Len(palette)
    /\ LET bgColor == IF Len(palette) > 0 THEN rgb(palette[Len(palette)])
                      ELSE "#ffffff"
           returned(filtered, allPaths) ==
              [svg |-> [width |-> image.width, height |-> image.height,
                        viewBox |-> <<0, 0, image.width, image.height>>,
                        rect |-> [x |-> 0, y |-> 0, width |-> image.width,
                                  height |-> image.height, fill |-> bgColor],
                        paths |-> [i \in 1..Len(allPaths) |->
                                     [d |-> allPaths[i].d,
                                      fill |-> allPaths[i].fill,
                                      fillRule |-> allPaths[i].fillRule,
                                      stroke |-> allPaths[i].stroke,
                                      strokeWidth |-> allPaths[i].strokeWidth]]],
               width |-> image.width,
               height |-> image.height,
               viewBoxWidth |-> image.width,
               viewBoxHeight |-> image.height,
               layers |-> filtered,
               paths |-> allPaths,
               colors |-> [i \in 1..Len(palette) |-> rgb(palette[i])],
               engine |-> "vecburner"]
           reversed(filtered, reversedLayers) ==
              returned(filtered, Arr([i \in 1..Len(reversedLayers) |->
                                        reversedLayers[i].paths[1]]))
           kept(filtered) == reversed(filtered, Reverse(filtered))
       IN  result' = kept(filteredLayers(layers, options))
    /\ pc' = "done"
    /\ UNCHANGED <<presetName, options, image, weightedColors, centers,
                   palette, currentPalette, changed, aliased, pixelColorMap,
                   otsuThreshold, colorIdx, layers, fitCurveFn, libsLoaded, scripts, calls, fitCalls,
                   input, output>>

-----------------------------------------------------------------------------
(* vectorizeWithPreset on strip images: MIN_SIZE pixels wide, so that        *)
(* vectorize works on the image itself, and one row high.                    *)

MIN_SIZE == 256

PaintT == <<0, 0, 0, 0>>
PaintH == <<0, 0, 0, 128>>
PaintK == <<0, 0, 0, 255>>
PaintA == <<100, 0, 0, 255>>
PaintB == <<0, 0, 110, 255>>
PaintC == <<130, 0, 0, 255>>
PaintR == <<200, 0, 0, 255>>
PaintL == <<240, 240, 240, 255>>

\* runs is a sequence of <<paint, length>>, the lengths adding up to MIN_SIZE
RECURSIVE StripRow(_)
StripRow(runs) ==
    IF runs = <<>> THEN <<>>
    ELSE [i \in 1..runs[1][2] |-> runs[1][1]] \o StripRow(Tail(runs))

Strip(runs) == [width |-> MIN_SIZE, height |-> 1, data |-> StripRow(runs)]

\* an image of several rows, each given by its runs
Picture(rows) ==
    [width |-> MIN_SIZE, height |-> Len(rows),
     data |-> Flatten([i \in 1..Len(rows) |-> StripRow(rows[i])], 1, Len(rows))]

StripRuns ==
    { <<<<PaintK, 256>>>>,
      <<<<PaintL, 256>>>>,
      <<<<PaintT, 256>>>>,
      <<<<PaintH, 256>>>>,
      <<<<PaintT, 56>>, <<PaintK, 200>>>>,
      <<<<PaintK, 246>>, <<PaintR, 10>>>>,
      <<<<PaintA, 100>>, <<PaintB, 100>>, <<PaintC, 56>>>>,
      <<<<PaintK, 100>>, <<PaintR, 100>>, <<PaintL, 56>>>> }

Images == {Strip(runs) : runs \in StripRuns}

PresetNames ==
    {"logo", "illustration", "lineart", "photo", "pixel", "simple",
     "bogus", "constructor"}

\* the calls explored: every strip under the presets whose options differ
\* most, two strips under the other names
MainPresets == {"logo", "lineart", "photo", "pixel"}

SampledRuns ==
    { <<<<PaintT, 56>>, <<PaintK, 200>>>>,
      <<<<PaintK, 100>>, <<PaintR, 100>>, <<PaintL, 56>>>> }

Calls ==
    (MainPresets \X StripRuns) \cup ((PresetNames \ MainPresets) \X SampledRuns)

\* vectorize called with options of the caller's own: the logo bundle with
\* the documented option mode set to 'polygon'
DirectCalls ==
    {<<[PRESETS["logo"] EXCEPT !.mode = "polygon"], <<<<PaintK, 256>>>>>>}

\* an image of three rows: a black frame around 254 transparent pixels
PictureCalls ==
    {<<"pixel", <<<<<<PaintK, 256>>>>,
                  <<<<PaintK, 1>>, <<PaintT, 254>>, <<PaintK, 1>>>>,
                  <<<<PaintK, 256>>>>>>>>}

Init ==
    /\ \/ /\ pc = "call"
          /\ \/ \E call \in Calls :
                   presetName = call[1] /\ image = Strip(call[2])
             \/ \E call \in PictureCalls :
                   presetName = call[1] /\ image = Picture(call[2])
          /\ options = DefaultOptions
       \/ /\ pc = "load"
          /\ presetName = "none"
          /\ \E call \in DirectCalls : options = call[1] /\ image = Strip(call[2])
    /\ weightedColors = <<>>
    /\ centers = <<>>
    /\ palette = <<>>
    /\ currentPalette = <<>>
    /\ changed = FALSE
    /\ aliased = FALSE
    /\ pixelColorMap = <<>>
    /\ otsuThreshold = -1
    /\ colorIdx = 0
    /\ layers = <<>>
    /\ result = NoResult
    /\ fitCurveFn = FALSE
    /\ CdnIdle
    /\ fitCalls = <<>>
    /\ input = <<>>
    /\ output = <<>>

Next ==
    \/ VectorizeWithPreset
    \/ LoadCdnLibs
    \/ Quantize
    \/ KMSample
    \/ KMSeed
    \/ KMSeedExit
    \/ KMIterate
    \/ KMFinish
    \/ MergeStart
    \/ MergePass
    \/ MergeExit
    \/ Classify
    \/ Denoise
    \/ Layer
    \/ Finish

Spec == Init /\ [][Next]_vars

-----------------------------------------------------------------------------
(* Properties of kMeansQuantize (specification SpecKM) *)

\* C2: the palette kMeansQuantize returns has at least 1 and at most K
\* entries, K = maxColors, whatever the roulette draws
C2_PaletteAtMostK ==
    pc = "quantized" =>
        /\ Len(palette) >= 1
        /\ Len(palette) <= options.numColors

\* C10: when K exceeds the number D of distinct quantized samples, the
\* seeding loop ends with fewer than K centres, and no more than D
C10_SeedsBelowK ==
    (pc = "iterate" /\ options.numColors > Len(weightedColors)) =>
        /\ Len(centers) < options.numColors
        /\ Len(centers) <= Len(weightedColors)

-----------------------------------------------------------------------------
(* Properties of vectorizeWithPreset (specification Spec) *)

Classified == pc \in {"denoise", "layers", "done"}

\* C1: after classification and after denoising every opaque pixel
\* (alpha >= 128) has a map value in 0..K-1, K the palette length, and the
\* mark 255 stands on pixels that are not opaque only
C1_OpaqueClassified ==
    Classified =>
        \A i \in 1..Len(pixelColorMap) :
            /\ image.data[i][4] >= 128 =>
                   pixelColorMap[i] \in 0..(Len(palette) - 1)
            /\ pixelColorMap[i] = TransparentMark => image.data[i][4] < 128

AscendingSum(pal) ==
    \A i \in 1..(Len(pal) - 1) : Lum3(pal[i]) <= Lum3(pal[i + 1])

\* C3: the palette is sorted by ascending r+g+b after the quantization and
\* after the merge of close colours, whichever way the merge loop ends, and
\* the layers of the result come in strictly ascending r+g+b
C3_PaletteAscending ==
    /\ pc \in {"quantized", "classify", "denoise", "layers", "done"} =>
           AscendingSum(palette)
    /\ pc = "done" =>
           \A i \in 1..(Len(result.layers) - 1) :
               Lum3(result.layers[i].colorRgb) < Lum3(result.layers[i + 1].colorRgb)

\* the merge loop ran and its last pass merged nothing
MergeQuiet == currentPalette # <<>> /\ ~changed

AfterMerge == pc \in {"classify", "denoise", "layers", "done"}

\* the squared distance below which the merge joins the colours a and b
PairThreshold(a, b) ==
    MergeThresholdVal(options) * MergeThresholdVal(options)
        * (IF isNeutral(a) /\ isNeutral(b) THEN neutralThresholdMult ELSE 1)

Separated(pal) ==
    \A i \in 1..Len(pal) : \A j \in (i + 1)..Len(pal) :
        colorDistSq(pal[i], pal[j]) >= PairThreshold(pal[i], pal[j])

BrightestSnapped(pal) ==
    \A i \in 1..Len(pal) :
        (/\ \A j \in 1..Len(pal) : Lum3(pal[j]) <= Lum3(pal[i])
         /\ pal[i][1] > 230 /\ pal[i][2] > 230 /\ pal[i][3] > 230)
            => pal[i] = <<255, 255, 255>>

UnknownPreset ==
    presetName \notin (DOMAIN PRESETS \cup SpecialPresetNames \cup {"none"})

\* C6 as stated: vectorizeWithPreset rejects a preset name it does not know:
\* vectorize never starts and no result is produced
C6_UnknownRejected == UnknownPreset => (pc = "call" /\ result = NoResult)

\* C6: vectorizeWithPreset with a preset name it does not know (and that no
\* object inherits) runs vectorize with the options of the preset logo and
\* produces a result
C6_UnknownRunsAsLogo ==
    (UnknownPreset /\ presetName \notin InheritedNames /\ pc # "call") =>
        /\ options = PRESETS["logo"]
        /\ pc = "done" => result.engine = "vecburner"

C6_UnknownDone ==
    /\ UnknownPreset /\ presetName \notin InheritedNames
    /\ pc = "done" /\ result.engine = "vecburner" /\ Len(result.layers) > 0

NoOpaquePixel == \A i \in 1..Len(image.data) : image.data[i][4] < 128

\* C7: an image without any opaque pixel is vectorized without failure into
\* a result with no layers and no paths, whose SVG holds the background
\* rectangle only, filled #ffffff
C7_TransparentGivesWhite ==
    (NoOpaquePixel /\ pc = "done") =>
        /\ result.engine = "vecburner"
        /\ result.layers = <<>>
        /\ result.paths = <<>>
        /\ result.svg.paths = <<>>
        /\ result.svg.rect.fill = "#ffffff"

UniformOpaque ==
    \A i \in 1..Len(image.data) :
        image.data[i] = image.data[1] /\ image.data[i][4] = 255

\* the numbers of a subpath are x, y pairs in hundredths of a pixel: its
\* bounding box takes in the whole canvas
CoversCanvas(sub) ==
    LET xs == {sub.nums[k] : k \in {k \in 1..Len(sub.nums) : k % 2 = 1}}
        ys == {sub.nums[k] : k \in {k \in 1..Len(sub.nums) : k % 2 = 0}}
    IN  /\ \E x \in xs : x <= 0
        /\ \E x \in xs : x >= image.width * 100
        /\ \E y \in ys : y <= 0
        /\ \E y \in ys : y >= image.height * 100

\* C8: an image of one opaque colour gives, under every preset, exactly one
\* layer with exactly one closed path, which encloses the full canvas
C8_UniformOnePath ==
    (UniformOpaque /\ pc = "done") =>
        /\ Len(result.layers) = 1
        /\ Len(result.layers[1].paths) = 1
        /\ Len(result.layers[1].paths[1].d) = 1
        /\ LET sub == result.layers[1].paths[1].d[1]
           IN  sub.cmds[Len(sub.cmds)] = "Z" /\ CoversCanvas(sub)

-----------------------------------------------------------------------------
(* The colour keys of kMeansQuantize and analyzeImageColors, on their own   *)
(* (specification SpecKeys)                                                 *)

\* color-analysis.js: Math.round(v / 8) * 8
Quantize5(v) == RoundDiv(v, 8) * 8

AnalyzedOpaque(px) == ~(px[4] < 128)

AnalyzeKey(px) == PackKey(Quantize5(px[1]), Quantize5(px[2]), Quantize5(px[3]))

\* one channel takes every value, the other two a value of KeyOthers
KeyOthers == {0, 100, 255}
KeyPixels(others) ==
    UNION {{<<v, a, b, 255>>, <<a, v, b, 255>>, <<a, b, v, 255>>} :
              <<v, a, b>> \in (0..255) \X others \X others}

InitKeys ==
    /\ pc = "key"
    /\ \E f \in {"kMeansQuantize", "analyzeImageColors"}, px \in KeyPixels(KeyOthers) :
           input = [fn |-> f, px |-> px]
    /\ output = <<>>
    /\ presetName = "none"
    /\ options = DefaultOptions
    /\ image = <<>>
    /\ weightedColors = <<>>
    /\ centers = <<>>
    /\ palette = <<>>
    /\ currentPalette = <<>>
    /\ changed = FALSE
    /\ aliased = FALSE
    /\ pixelColorMap = <<>>
    /\ otsuThreshold = -1
    /\ colorIdx = 0
    /\ layers = <<>>
    /\ result = NoResult
    /\ fitCurveFn = FALSE
    /\ CdnIdle
    /\ fitCalls = <<>>

\* the key a sampled pixel is counted under, and the colour read back from it
SampleColour ==
    /\ pc = "key"
    /\ input.fn = "kMeansQuantize"
    /\ SampledOpaque(input.px)
    /\ output' = [key |-> SampleKey(input.px),
                  color |-> UnpackKey(SampleKey(input.px))]
    /\ pc' = "colour"
    /\ UNCHANGED <<presetName, options, image, weightedColors, centers,
                   palette, currentPalette, changed, aliased, pixelColorMap,
                   otsuThreshold, colorIdx, layers, result, fitCurveFn, libsLoaded, scripts, calls, fitCalls, input>>

AnalyzeColour ==
    /\ pc = "key"
    /\ input.fn = "analyzeImageColors"
    /\ AnalyzedOpaque(input.px)
    /\ output' = [key |-> AnalyzeKey(input.px),
                  color |-> UnpackKey(AnalyzeKey(input.px))]
    /\ pc' = "colour"
    /\ UNCHANGED <<presetName, options, image, weightedColors, centers,
                   palette, currentPalette, changed, aliased, pixelColorMap,
                   otsuThreshold, colorIdx, layers, result, fitCurveFn, libsLoaded, scripts, calls, fitCalls, input>>

NextKeys == SampleColour \/ AnalyzeColour

SpecKeys == InitKeys /\ [][NextKeys]_vars

\* the nearest multiple of step, halves going up
Snapped(v, step) == ((2 * v + step) \div (2 * step)) * step

\* C20: for every channel value 0..255 the snap (to a multiple of 2 in
\* kMeansQuantize, of 8 in analyzeImageColors), the packing into the 24-bit
\* key and the unpacking give back the snapped value, within 0..255, no
\* channel spilling into another
C20_KeyRoundTrip ==
    pc = "colour" =>
        LET step == IF input.fn = "kMeansQuantize" THEN 2 ELSE 8
        IN  \A c \in 1..3 :
                /\ output.color[c] = Snapped(input.px[c], step)
                /\ output.color[c] \in 0..255

-----------------------------------------------------------------------------
(* marchingSquaresContour on its own (specification SpecContours)           *)

\* the sizes of the bitmaps tried
BitmapSizes == {<<3, 3>>, <<4, 3>>, <<2, 4>>, <<5, 1>>}

\* the grey levels of a set and of a clear pixel of the grey map
GreyPairs == {<<0, 255>>, <<100, 150>>, <<127, 128>>}

BitmapsOf(sizes) ==
    UNION {{[width |-> s[1], height |-> s[2], data |-> d,
             grayscale |-> [i \in 1..(s[1] * s[2]) |->
                               GreyUnit * (IF d[i] = 1 THEN g[1] ELSE g[2])]] :
               d \in [1..(s[1] * s[2]) -> {0, 1}], g \in GreyPairs} :
           s \in sizes}

InitContours ==
    /\ pc = "bitmap"
    /\ input \in BitmapsOf(BitmapSizes)
    /\ output = <<>>
    /\ presetName = "none"
    /\ options = DefaultOptions
    /\ image = <<>>
    /\ weightedColors = <<>>
    /\ centers = <<>>
    /\ palette = <<>>
    /\ currentPalette = <<>>
    /\ changed = FALSE
    /\ aliased = FALSE
    /\ pixelColorMap = <<>>
    /\ otsuThreshold = -1
    /\ colorIdx = 0
    /\ layers = <<>>
    /\ result = NoResult
    /\ fitCurveFn = FALSE
    /\ CdnIdle
    /\ fitCalls = <<>>

MarchingSquares ==
    /\ pc = "bitmap"
    /\ output' = marchingSquaresContour(input)
    /\ pc' = "contours"
    /\ UNCHANGED <<presetName, options, image, weightedColors, centers,
                   palette, currentPalette, changed, aliased, pixelColorMap,
                   otsuThreshold, colorIdx, layers, result, fitCurveFn, libsLoaded, scripts, calls, fitCalls, input>>

NextContours == MarchingSquares

SpecContours == InitContours /\ [][NextContours]_vars

\* C11: every contour marchingSquaresContour returns has at least 3 distinct
\* points, and its last point is its first point
C11_ContoursClosed ==
    pc = "contours" =>
        \A k \in 1..Len(output) :
            LET pts == output[k].points
            IN  /\ Cardinality({pts[i] : i \in 1..Len(pts)}) >= 3
                /\ pts[Len(pts)] = pts[1]

C11_ContourTraced ==
    /\ pc = "contours"
    /\ Len(output) >= 2
    /\ \E k \in 1..Len(output) : Len(output[k].points) >= 9

-----------------------------------------------------------------------------
(* index.js: vectorize, the working size of an image (specification         *)
(* SpecSizes)                                                               *)

\* a scale that rounds down
UpscaleFloor(width, height) ==
    IF Max2(width, height) < MIN_SIZE
    THEN MIN_SIZE \div Max2(width, height) ELSE 1

\* scale: Math.ceil(MIN_SIZE / maxDim) for a small image, 1 otherwise
UpscaleFactor(width, height) ==
    IF Max2(width, height) < MIN_SIZE
    THEN CeilDiv(MIN_SIZE, Max2(width, height)) ELSE 1

\* width and height after the preprocessing of small images
WorkingSize(width, height) ==
    [width |-> width * UpscaleFactor(width, height),
     height |-> height * UpscaleFactor(width, height)]

\* the sizes in the returned object
ReturnedSize(originalWidth, originalHeight, working) ==
    [width |-> originalWidth, height |-> originalHeight,
     viewBoxWidth |-> working.width, viewBoxHeight |-> working.height]

MaxSide == 300
SideSamples == {1, 2, 100, 255, 256, 257}
ImageSizes(maxSide) ==
    ((1..maxSide) \X SideSamples) \cup (SideSamples \X (1..maxSide))

InitSizes ==
    /\ pc = "size"
    /\ \E s \in ImageSizes(MaxSide) : input = [width |-> s[1], height |-> s[2]]
    /\ output = <<>>
    /\ presetName = "none"
    /\ options = DefaultOptions
    /\ image = <<>>
    /\ weightedColors = <<>>
    /\ centers = <<>>
    /\ palette = <<>>
    /\ currentPalette = <<>>
    /\ changed = FALSE
    /\ aliased = FALSE
    /\ pixelColorMap = <<>>
    /\ otsuThreshold = -1
    /\ colorIdx = 0
    /\ layers = <<>>
    /\ result = NoResult
    /\ fitCurveFn = FALSE
    /\ CdnIdle
    /\ fitCalls = <<>>

VectorizeSizes ==
    /\ pc = "size"
    /\ output' = [working |-> WorkingSize(input.width, input.height),
                  returned |-> ReturnedSize(input.width, input.height,
                                   WorkingSize(input.width, input.height))]
    /\ pc' = "sized"
    /\ UNCHANGED <<presetName, options, image, weightedColors, centers,
                   palette, currentPalette, changed, aliased, pixelColorMap,
                   otsuThreshold, colorIdx, layers, result, fitCurveFn, libsLoaded, scripts, calls, fitCalls, input>>

NextSizes == VectorizeSizes

SpecSizes == InitSizes /\ [][NextSizes]_vars

\* C12: an image with max(W, H) < 256 is worked on at (W * s, H * s), s the
\* least integer with s * max(W, H) >= 256, which is at least 2: the result's
\* viewBoxWidth and viewBoxHeight exceed its width and height, which are
\* those of the source. With max(W, H) >= 256 the working size is the
\* source size.
C12_WorkingSize ==
    pc = "sized" =>
        LET maxDim == Max2(input.width, input.height)
            s == CHOOSE k \in 1..256 :
                     k * maxDim >= 256 /\ (k - 1) * maxDim < 256
        IN  /\ output.returned.width = input.width
            /\ output.returned.height = input.height
            /\ maxDim < 256 =>
                   /\ s >= 2
                   /\ output.working = [width |-> input.width * s,
                                        height |-> input.height * s]
                   /\ output.returned.viewBoxWidth > output.returned.width
                   /\ output.returned.viewBoxHeight > output.returned.height
            /\ maxDim >= 256 =>
                   /\ output.working = input
                   /\ output.returned.viewBoxWidth = input.width
                   /\ output.returned.viewBoxHeight = input.height

C12_SmallUpscaled ==
    /\ pc = "sized"
    /\ Max2(input.width, input.height) = 255
    /\ output.working.width = 2 * input.width

\* the path commands of the result
ResultCommands ==
    UNION {{sub.cmds[k] : k \in 1..Len(sub.cmds)} :
              sub \in UNION {{result.paths[i].d[j] : j \in 1..Len(result.paths[i].d)} :
                                i \in 1..Len(result.paths)}}

\* C13: with the option mode = 'polygon' every path of the result is made of
\* the commands M, L and Z only, no C, whatever the preset and the size of
\* the contour
C13_PolygonModeStraight ==
    (pc = "done" /\ options.mode = "polygon") =>
        ResultCommands \subseteq {"M", "L", "Z"}

\* C14: the background rectangle of the SVG is filled with the brightest
\* palette colour, an entry whose r+g+b is the largest of the palette
C14_BackgroundBrightest ==
    pc = "done" =>
        \E i \in 1..Len(palette) :
            /\ result.svg.rect.fill = rgb(palette[i])
            /\ \A j \in 1..Len(palette) : Lum3(palette[j]) <= Lum3(palette[i])

\* the |area| of the contours of palette index idx that the contour loop
\* prints as paths, in AreaUnit
EmittedAreas(idx) ==
    LET minNoise == minNoiseArea(options, image.width * image.height)
        areas(cs) ==
            Arr([i \in 1..Len(cs) |->
                    IF ContourStage(cs[i], options, minNoise).kind # "skip"
                    THEN Abs(cs[i].area) ELSE -1])
        emitted(as) == SelectSeq(as, LAMBDA a : a >= 0)
    IN  emitted(areas(LayerContours(options,
                          LayerBitmap(options, image, pixelColorMap, palette,
                                      idx, otsuThreshold)).contours))

AllEmittedAreas ==
    Flatten([i \in 1..Len(palette) |-> EmittedAreas(i - 1)], 1, Len(palette))

C16_LeastSquaresFirst ==
    \A i \in 1..Len(fitCalls) :
        fitCalls[i].failed =>
            /\ Len(fitCalls[i].calls) >= 2
            /\ fitCalls[i].calls[2] = "fitSegmentCurve"
            /\ fitCalls[i].pushed

\* C16: when fitCurve throws or returns no curves for a contour, vectorize
\* does not pass the failure on: the next and last fit it calls is
\* fitBezierCatmullRom, and a path is pushed for the contour
C16_CatmullRomFallback ==
    \A i \in 1..Len(fitCalls) :
        fitCalls[i].failed =>
            /\ fitCalls[i].calls = <<"fitCurve", "fitBezierCatmullRom">>
            /\ fitCalls[i].pushed

C16_FitFailed ==
    /\ layers # <<>>
    /\ \E i \in 1..Len(fitCalls) : fitCalls[i].failed /\ fitCalls[i].pushed

\* ---------------------------------------------------------------------------
\* C17: processing one palette index leaves the pixel-colour map, the palette
\* and the working image unchanged, and the layer it pushes is the one the
\* index gives on its own from that shared data, whatever layers were pushed
\* before it; so the layer of index i is the same for every processing order.
\* ---------------------------------------------------------------------------
LayerAlone(idx) ==
    LET staged == LayerStages(options, image, pixelColorMap, palette, idx,
                              otsuThreshold)
    IN  {LayerPush(<<>>, staged, options, palette, idx, fitCurveFn, outcome) :
            outcome \in FitCurveOutcomes}

LayerStep == pc = "layers" /\ colorIdx' = colorIdx + 1

-----------------------------------------------------------------------------
(* index.js: vectorize, the post-quantization merge on its own: it starts
   where kMeansQuantize has returned a palette, for every preset that takes
   the colour branch and for the call without a preset *)

MaxPalette == 4

MergeColours ==
    {<<232, 232, 232>>, <<240, 250, 236>>, <<254, 254, 254>>,
     <<231, 255, 255>>, <<228, 228, 228>>, <<100, 100, 100>>}

MergeOptions ==
    {DefaultOptions, PRESETS["logo"], PRESETS["illustration"],
     PRESETS["simple"], PRESETS["photo"], PRESETS["pixel"]}

PalettesOf(colours, maxLen) ==
    UNION {[1..n -> colours] : n \in 1..maxLen}

InitMerge ==
    /\ pc = "quantized"
    /\ presetName = "none"
    /\ options \in MergeOptions
    /\ image = [width |-> 0, height |-> 1, data |-> <<>>]
    /\ weightedColors = <<>>
    /\ centers = <<>>
    /\ palette \in PalettesOf(MergeColours, MaxPalette)
    /\ currentPalette = <<>>
    /\ changed = FALSE
    /\ aliased = FALSE
    /\ pixelColorMap = <<>>
    /\ otsuThreshold = -1
    /\ colorIdx = 0
    /\ layers = <<>>
    /\ result = NoResult
    /\ fitCurveFn = FALSE
    /\ CdnIdle
    /\ fitCalls = <<>>
    /\ input = palette
    /\ output = <<>>

NextMerge == MergeStart \/ MergePass \/ MergeExit

SpecMerge == InitMerge /\ [][NextMerge]_vars

\* ---------------------------------------------------------------------------
\* C18: a palette in which every colour is near-white (all channels above 230)
\* has collapsed to the single entry [255,255,255] when the palette
\* construction is over, whatever the number of its colours.
\* ---------------------------------------------------------------------------
AllNearWhite(pal) ==
    \A i \in 1..Len(pal) : pal[i][1] > 230 /\ pal[i][2] > 230 /\ pal[i][3] > 230

PaletteBuilt == pc = "classify"

C18_NearWhiteCollapses ==
    (PaletteBuilt /\ AllNearWhite(input)) => palette = <<<<255, 255, 255>>>>

\* C18 as the code has it: the collapse happens for three colours or more and
\* for a preset other than photo and pixel
C18_ThreeOrMoreCollapse ==
    (/\ PaletteBuilt
     /\ AllNearWhite(input)
     /\ Len(input) >= 3
     /\ options.preset \notin {"photo", "pixel"}) =>
        palette = <<<<255, 255, 255>>>>

\* three near-white colours, none of them white, have collapsed to white
C18_ThreeCollapsed ==
    /\ PaletteBuilt
    /\ AllNearWhite(input)
    /\ Len(input) = 3
    /\ \A i \in 1..3 : input[i] # <<255, 255, 255>>
    /\ options.preset = "logo"
    /\ palette = <<<<255, 255, 255>>>>

-----------------------------------------------------------------------------
(* index.js: vectorize on a small image under the pixel preset, up to the
   palette: the image is enlarged without smoothing (nearest neighbour) and
   kMeansQuantize samples the enlarged copy; the enlarged copy is a local of
   vectorize, the state keeps the image that was passed in *)

\* drawImage with imageSmoothingEnabled = false and a whole-number factor
UpscaleNearest(img, scale) ==
    LET newWidth == img.width * scale
        newHeight == img.height * scale
    IN  [width |-> newWidth, height |-> newHeight,
         data |-> [i \in 1..(newWidth * newHeight) |->
                      img.data[(((i - 1) \div newWidth) \div scale) * img.width
                               + (((i - 1) % newWidth) \div scale) + 1]]]

WorkingData(img) == UpscaleNearest(img, UpscaleFactor(img.width, img.height))

TinySide == 4

PaintRed == <<255, 0, 0, 255>>

DotPaints == {PaintRed, PaintR}

\* the image of the given size, black with the dots in one paint
Dotted(width, height, dots, paint) ==
    [width |-> width, height |-> height,
     data |-> [i \in 1..(width * height) |->
                  IF <<(i - 1) % width, (i - 1) \div width>> \in dots
                  THEN paint ELSE PaintK]]

ThreeDots == {<<0, 0>>, <<2, 0>>, <<0, 2>>}

\* the square image with the three dots, and the images of one row with any
\* dots but all
TinyImages(side) ==
    {Dotted(side, side, ThreeDots, paint) : paint \in DotPaints}
    \cup {Dotted(side, 1, dots, paint) :
             dots \in (SUBSET ((0..(side - 1)) \X {0})) \ {(0..(side - 1)) \X {0}},
             paint \in DotPaints}

InitTiny ==
    /\ pc = "small"
    /\ presetName = "pixel"
    /\ options = PRESETS["pixel"]
    /\ image \in TinyImages(TinySide)
    /\ weightedColors = <<>>
    /\ centers = <<>>
    /\ palette = <<>>
    /\ currentPalette = <<>>
    /\ changed = FALSE
    /\ aliased = FALSE
    /\ pixelColorMap = <<>>
    /\ otsuThreshold = -1
    /\ colorIdx = 0
    /\ layers = <<>>
    /\ result = NoResult
    /\ fitCurveFn = FALSE
    /\ CdnIdle
    /\ fitCalls = <<>>
    /\ input = <<>>
    /\ output = <<>>

\* the preprocessing of the small image and the sampling of kMeansQuantize
UpscaleSample ==
    /\ pc = "small"
    /\ options.preset = "pixel"
    /\ LET sampled(wcs) ==
               IF Len(wcs) = 0
               THEN /\ palette' = <<<<128, 128, 128>>>>
                    /\ pc' = "quantized"
                    /\ UNCHANGED <<weightedColors, centers>>
               ELSE /\ weightedColors' = wcs
                    /\ centers' = <<wcs[1].color>>
                    /\ pc' = "seed"
                    /\ UNCHANGED palette
       IN  sampled(WeightedColors(WorkingData(image).data))
    /\ UNCHANGED <<presetName, options, image, currentPalette, changed, aliased,
                   pixelColorMap, otsuThreshold, colorIdx, layers, result,
                   fitCurveFn, libsLoaded, scripts, calls, fitCalls,
                   input, output>>

NextTiny == UpscaleSample \/ KMSeed \/ KMSeedExit \/ KMIterate \/ KMFinish

SpecTiny == InitTiny /\ [][NextTiny]_vars

\* ---------------------------------------------------------------------------
\* C19: for the 4x4 image with three isolated red pixels at (0,0), (2,0),
\* (0,2) on black, the pixel preset keeps the red pixels: the palette its
\* layers take their colours from has the red of the pixels next to black.
\* ---------------------------------------------------------------------------
ThreeRedOnBlack == image = Dotted(TinySide, TinySide, ThreeDots, PaintRed)

C19_PixelKeepsRed ==
    (pc = "quantized" /\ ThreeRedOnBlack) =>
        \E i \in 1..Len(palette) : palette[i] = <<255, 0, 0>>

-----------------------------------------------------------------------------
(* the pure functions on their own: the pipeline variables rest, the
   argument is in input and the returned value in output *)

PipelineIdle ==
    /\ presetName = "none"
    /\ options = DefaultOptions
    /\ image = <<>>
    /\ weightedColors = <<>>
    /\ centers = <<>>
    /\ palette = <<>>
    /\ currentPalette = <<>>
    /\ changed = FALSE
    /\ aliased = FALSE
    /\ pixelColorMap = <<>>
    /\ otsuThreshold = -1
    /\ colorIdx = 0
    /\ layers = <<>>
    /\ result = NoResult
    /\ fitCurveFn = FALSE
    /\ CdnIdle
    /\ fitCalls = <<>>

pipelineVars ==
    <<presetName, options, image, weightedColors, centers, palette,
      currentPalette, changed, aliased, pixelColorMap, otsuThreshold,
      colorIdx, layers, result, fitCurveFn, libsLoaded, scripts, calls, fitCalls>>

-----------------------------------------------------------------------------
(* utils.js: denoisePixelMap on its own *)

MapSizes == {<<3, 3, {0, 1, 255}>>, <<3, 2, {0, 1, 2, 255}>>}

MapsOf(sizes) ==
    UNION {{[width |-> z[1], height |-> z[2], map |-> m] :
               m \in [1..(z[1] * z[2]) -> z[3]]} : z \in sizes}

InitDenoise ==
    /\ pc = "denoise map"
    /\ \E m \in MapsOf(MapSizes) : \E iterations \in 1..DenoiseIterations :
          input = [width |-> m.width, height |-> m.height, map |-> m.map,
                   iterations |-> iterations]
    /\ output = <<>>
    /\ PipelineIdle

DenoiseMap ==
    /\ pc = "denoise map"
    /\ output' = denoisePixelMap(input.map, input.width, input.height,
                                 input.iterations)
    /\ pc' = "denoised map"
    /\ UNCHANGED <<input, pipelineVars>>

NextDenoise == DenoiseMap

SpecDenoise == InitDenoise /\ [][NextDenoise]_vars

\* ---------------------------------------------------------------------------
\* C21: each pass of denoisePixelMap computes every pixel from the map the
\* pass started with: a transparent pixel (255) stays 255; another pixel is
\* replaced by the mode of the non-transparent values of its 3x3
\* neighbourhood exactly when its own value occurs once there or a different
\* value occurs at least 5 times, and keeps its value otherwise; it never
\* becomes 255. This holds for 1 and for 2 iterations.
\* ---------------------------------------------------------------------------
\* how often value v occurs around pixel i (1-based) of the map, the pixel
\* itself included
Around(map, width, height, i, v) ==
    LET x == (i - 1) % width
        y == (i - 1) \div width
    IN  Cardinality({j \in 1..(width * height) :
            /\ Abs(((j - 1) % width) - x) <= 1
            /\ Abs(((j - 1) \div width) - y) <= 1
            /\ map[j] = v})

PassOk(before, after, width, height) ==
    /\ Len(after) = width * height
    /\ \A i \in 1..(width * height) :
         LET own == before[i]
             values == {before[j] : j \in 1..(width * height)} \ {255}
             n(v) == Around(before, width, height, i, v)
             isMode(v) == n(v) >= 1 /\ \A u \in values : n(u) <= n(v)
             replaced == n(own) = 1 \/ \E v \in values \ {own} : n(v) >= 5
         IN  IF own = 255 THEN after[i] = 255
             ELSE IF replaced THEN after[i] # 255 /\ isMode(after[i])
             ELSE after[i] = own

C21_DenoisePasses ==
    pc = "denoised map" =>
        IF input.iterations = 1
        THEN PassOk(input.map, output, input.width, input.height)
        ELSE /\ input.iterations = 2
             /\ PassOk(denoisePixelMap(input.map, input.width, input.height, 1),
                       output, input.width, input.height)

\* two passes have run, and the second has changed a pixel that the first
\* had changed already
C21_TwoPassesChanged ==
    /\ pc = "denoised map"
    /\ input.iterations = 2
    /\ \E i \in 1..Len(output) :
         LET mid == denoisePixelMap(input.map, input.width, input.height, 1)
         IN  mid[i] # input.map[i] /\ output[i] # mid[i]

-----------------------------------------------------------------------------
(* contour-tracer.js: marchingSquaresContour with the walks of traceContour
   in view: every small bitmap, and larger ones with long winding
   boundaries *)

\* a bitmap from its rows, with the grey map of a sharp edge
BitmapOfRows(rows) ==
    LET width == Len(rows[1])
        height == Len(rows)
        data == [i \in 1..(width * height) |->
                    rows[((i - 1) \div width) + 1][((i - 1) % width) + 1]]
    IN  [width |-> width, height |-> height, data |-> data,
         grayscale |-> [i \in 1..(width * height) |->
                           GreyUnit * (IF data[i] = 1 THEN 0 ELSE 255)]]

WindingRows ==
    {<<<<1, 1, 1, 1, 1, 1>>,
       <<1, 0, 0, 0, 0, 1>>,
       <<0, 1, 1, 1, 1, 1>>,
       <<0, 1, 0, 1, 0, 1>>,
       <<1, 1, 1, 0, 1, 0>>,
       <<1, 0, 1, 1, 1, 1>>>>,
     <<<<1, 1, 0, 1, 1>>,
       <<1, 0, 1, 0, 1>>,
       <<1, 1, 1, 1, 1>>,
       <<1, 0, 1, 0, 1>>,
       <<1, 1, 0, 1, 1>>>>}

WalkSizes == {<<3, 3>>, <<1, 1>>, <<2, 2>>}

WalkBitmaps(sizes, rowsSet) ==
    BitmapsOf(sizes) \cup {BitmapOfRows(rows) : rows \in rowsSet}

InitWalks ==
    /\ pc = "bitmap"
    /\ input \in WalkBitmaps(WalkSizes, WindingRows)
    /\ output = <<>>
    /\ PipelineIdle

TraceWalks ==
    /\ pc = "bitmap"
    /\ LET traced(scan) ==
               output' = [contours |-> SortByArea(scan.contours),
                          walks |-> scan.walks]
       IN  traced(marchingSquaresScan(input))
    /\ pc' = "walked"
    /\ UNCHANGED <<input, pipelineVars>>

NextWalks == TraceWalks

SpecWalks == InitWalks /\ [][NextWalks]_vars

\* ---------------------------------------------------------------------------
\* C22: in marchingSquaresContour every contour walk ends only by returning
\* to its start cell and out-edge: never because a table transition is
\* missing, because the step cap was reached, or because a visited edge was
\* met mid-walk; so every walk is one complete boundary loop.
\* ---------------------------------------------------------------------------
C22_WalksReturnToStart ==
    pc = "walked" =>
        \A k \in 1..Len(output.walks) : output.walks[k].exit = "start"

\* ---------------------------------------------------------------------------
\* C23: marchingSquaresContour returns exactly one contour tagged outer
\* (area >= 0) per 4-connected foreground component and exactly one tagged
\* inner (area < 0) per enclosed background hole; an isolated foreground
\* pixel yields exactly one outer contour with 4 vertices.
\* ---------------------------------------------------------------------------
\* the cells of the bitmap with a margin of one cell around it
Padded(bm) == (-1..bm.width) \X (-1..bm.height)

Touching(p, q, diagonal) ==
    /\ p # q
    /\ Abs(p[1] - q[1]) <= 1
    /\ Abs(p[2] - q[2]) <= 1
    /\ diagonal \/ p[1] = q[1] \/ p[2] = q[2]

\* the cells of the set that are joined to the seeds
RECURSIVE Joined(_, _, _)
Joined(seeds, cells, diagonal) ==
    LET more == {q \in cells \ seeds :
                    \E p \in seeds : Touching(p, q, diagonal)}
    IN  IF more = {} THEN seeds
        ELSE Joined(seeds \cup more, cells, diagonal)

RECURSIVE ComponentCount(_, _)
ComponentCount(cells, diagonal) ==
    IF cells = {} THEN 0
    ELSE LET p == CHOOSE c \in cells : TRUE
         IN  1 + ComponentCount(cells \ Joined({p}, cells, diagonal), diagonal)

Foreground(bm) == {p \in Padded(bm) : getPixel(bm, p[1], p[2]) = 1}

\* the background joins across diagonals where the foreground does not; the
\* component of the margin is the outside, every other one is a hole
ForegroundComponents(bm) == ComponentCount(Foreground(bm), FALSE)
Holes(bm) == ComponentCount(Padded(bm) \ Foreground(bm), TRUE) - 1

Tagged(contours, type) ==
    Cardinality({k \in 1..Len(contours) : contours[k].type = type})

C23_OneContourPerRegion ==
    pc = "walked" =>
        /\ \A k \in 1..Len(output.contours) :
              (output.contours[k].type = "outer") = (output.contours[k].area >= 0)
        /\ Tagged(output.contours, "outer") = ForegroundComponents(input)
        /\ Tagged(output.contours, "inner") = Holes(input)
        /\ Cardinality(Foreground(input)) = 1 =>
              /\ Len(output.contours) = 1
              /\ Cardinality({output.contours[1].points[i] :
                     i \in 1..Len(output.contours[1].points)}) = 4

-----------------------------------------------------------------------------
(* index.js: vectorize, the noise filter of the contour loop on its own:
   rectangular contours of one pixel in height, outer and inner, for every
   preset and for images below and above both clamps of the floor *)

\* the closed contour around a rectangle, clockwise (outer) or not (inner);
\* sides in steps of 1 / Scale
RectContour(w, h, outer) ==
    LET cw == <<<<0, 0>>, <<w, 0>>, <<w, h>>, <<0, h>>, <<0, 0>>>>
        points == IF outer THEN cw ELSE Reverse(cw)
        area == calculateArea(points)
    IN  [points |-> points,
         type |-> IF area >= 0 THEN "outer" ELSE "inner",
         area |-> area]

\* widths in steps: the areas around every value the floor can take
NoiseWidths ==
    {49, 50, 51, 99, 100, 101, 199, 200, 201, 327, 328, 399, 400, 401,
     655, 656, 1249, 1250, 1251, 2499, 2500, 2501, 3276, 3277, 4999, 5000,
     5001, 6553, 6554, 9999, 10000, 19999, 20000, 20001}

NoiseImages == {<<256, 1>>, <<256, 256>>, <<512, 400>>, <<1000, 1000>>}

NoiseOptions ==
    {DefaultOptions, PRESETS["logo"], PRESETS["illustration"],
     PRESETS["photo"], PRESETS["pixel"], PRESETS["simple"]}

NoiseInputs(widths, sizes, opts) ==
    {[contour |-> RectContour(w, Scale, outer), width |-> z[1],
      height |-> z[2], options |-> o] :
        w \in widths, outer \in BOOLEAN, z \in sizes, o \in opts}

InitNoise ==
    /\ pc = "contour"
    /\ input \in NoiseInputs(NoiseWidths, NoiseImages, NoiseOptions)
    /\ output = <<>>
    /\ PipelineIdle

FilterContour ==
    /\ pc = "contour"
    /\ output' = ContourStage(input.contour, input.options,
                     minNoiseArea(input.options, input.width * input.height))
    /\ pc' = "filtered"
    /\ UNCHANGED <<input, pipelineVars>>

NextNoise == FilterContour

SpecNoise == InitNoise /\ [][NextNoise]_vars

\* ---------------------------------------------------------------------------
\* C24: a traced contour is discarded as noise in vectorize exactly when its
\* |area| is below the layer's noise floor: 1 for the pixel preset,
\* clamp(W*H*0.001, 25, 200) for the logo preset and clamp(W*H*0.0001, 4, 50)
\* otherwise, holes using half of that floor.
\* ---------------------------------------------------------------------------
\* the floor in AreaUnit, which both 1000 and 10000 divide
NoiseFloor(preset, totalArea) ==
    IF preset = "pixel" THEN AreaUnit
    ELSE IF preset = "logo"
    THEN Clamp(totalArea * (AreaUnit \div 1000), 25 * AreaUnit, 200 * AreaUnit)
    ELSE Clamp(totalArea * (AreaUnit \div 10000), 4 * AreaUnit, 50 * AreaUnit)

Discarded == output.kind = "skip"

BelowFloor(floor) ==
    IF input.contour.area < 0
    THEN 2 * Abs(input.contour.area) < floor
    ELSE Abs(input.contour.area) < floor

C24_DiscardedBelowFloor ==
    pc = "filtered" =>
        (Discarded <=>
            BelowFloor(NoiseFloor(input.options.preset,
                                  input.width * input.height)))

\* C24 as the code has it: under the pixel preset a contour, outer or hole,
\* is discarded exactly when its |area| is below 0.5
C24_DiscardedBelowFloorOrHalfPixel ==
    pc = "filtered" =>
        (Discarded <=>
            IF input.options.preset = "pixel"
            THEN 2 * Abs(input.contour.area) < AreaUnit
            ELSE BelowFloor(NoiseFloor(input.options.preset,
                                       input.width * input.height)))

\* a hole between the half floor and the floor is kept, under the logo
\* preset on an image between the clamps
C24_HoleKeptAboveHalf ==
    /\ pc = "filtered"
    /\ input.options.preset = "logo"
    /\ input.width * input.height = 256 * 256
    /\ input.contour.type = "inner"
    /\ Abs(input.contour.area) < NoiseFloor("logo", 256 * 256)
    /\ ~Discarded

-----------------------------------------------------------------------------
(* path-smooth-advanced.js: chaikinSmoothPreserveCorners on its own *)

MaxChaikinPoints == 4
MaxChaikinIterations == 2

\* coordinates in steps of 1 / Scale; the last point lies within half a
\* pixel of the first
ChaikinPoints == {<<0, 0>>, <<400, 0>>, <<400, 300>>, <<30, 20>>}

ChaikinInputs(pointSet, maxLen, maxIter) ==
    UNION {{[points |-> pts, cornerIdx |-> cs, iterations |-> k, upscale |-> u] :
               pts \in [1..n -> pointSet],
               cs \in (SUBSET (1..n)) \ {{}},
               k \in 1..maxIter,
               u \in {1, 3}} : n \in 1..maxLen}

InitChaikin ==
    /\ pc = "points"
    /\ input \in ChaikinInputs(ChaikinPoints, MaxChaikinPoints,
                               MaxChaikinIterations)
    /\ output = <<>>
    /\ PipelineIdle

ChaikinSmooth ==
    /\ pc = "points"
    /\ output' = chaikinSmoothPreserveCorners(input.points, input.iterations,
                                              input.cornerIdx, input.upscale)
    /\ pc' = "smoothed"
    /\ UNCHANGED <<input, pipelineVars>>

NextChaikin == ChaikinSmooth

SpecChaikin == InitChaikin /\ [][NextChaikin]_vars

\* ---------------------------------------------------------------------------
\* C25: chaikinSmoothPreserveCorners with k >= 1 iterations and a non-empty
\* corner set returns exactly 2^k * n points for n input points, and every
\* input point whose index is in the corner set is in the output at exactly
\* its original coordinates after every iteration.
\* ---------------------------------------------------------------------------
RECURSIVE Pow2(_)
Pow2(k) == IF k = 0 THEN 1 ELSE 2 * Pow2(k - 1)

\* what the function returns when it is stopped after j iterations
AfterIterations(j) ==
    chaikinSmoothPreserveCorners(input.points, j, input.cornerIdx,
                                 input.upscale)

CornersKept ==
    \A j \in 1..input.iterations : \A i \in input.cornerIdx :
        \E q \in 1..Len(AfterIterations(j)) :
            AfterIterations(j)[q] = input.points[i]

C25_DoubledEveryIteration ==
    pc = "smoothed" =>
        /\ Len(output) = Pow2(input.iterations) * Len(input.points)
        /\ CornersKept

\* C25 as the code has it: fewer than 3 points are returned as they are
C25_DoubledFromThreePoints ==
    pc = "smoothed" =>
        /\ Len(input.points) >= 3 =>
              Len(output) = Pow2(input.iterations) * Len(input.points)
        /\ Len(input.points) < 3 => output = input.points
        /\ CornersKept

\* two iterations on three points or more, with a corner kept and another
\* point cut
C25_CornerKeptOthersCut ==
    /\ pc = "smoothed"
    /\ input.iterations = 2
    /\ Len(input.points) >= 3
    /\ \E i \in 1..Len(input.points) :
          /\ i \notin input.cornerIdx
          /\ \A q \in 1..Len(output) : output[q] # input.points[i]

-----------------------------------------------------------------------------
(* corner-detect.js: computeCurvature and the two corner detectors, on
   closed point lists; angles in microradians, point indices from 0 *)

\* Math.PI in microradians
PiMicro == 3141593

\* the 0.01 rad tolerance of the local-minimum test of the strict detector
LocalMinTolerance == 10000

\* atan(2^-i) in microradians, i = 0..20
AtanTable ==
    <<785398, 463648, 244979, 124355, 62419, 31240, 15624, 7812, 3906, 1953,
      977, 488, 244, 122, 61, 31, 15, 8, 4, 2, 1>>

\* (x, y) doubled until the larger coordinate reaches 2^26
RECURSIVE ScaleUp(_, _)
ScaleUp(x, y) ==
    IF Max2(Abs(x), Abs(y)) >= Pow2(26) THEN <<x, y>>
    ELSE ScaleUp(2 * x, 2 * y)

\* the rotations of (x, y), x > 0, onto the x axis: the angle turned
RECURSIVE Cordic(_, _, _, _)
Cordic(x, y, z, i) ==
    IF i > Len(AtanTable) THEN z
    ELSE LET p == Pow2(i - 1)
         IN  IF y > 0
             THEN Cordic(x + y \div p, y - x \div p, z + AtanTable[i], i + 1)
             ELSE Cordic(x + (-y) \div p, y + x \div p, z - AtanTable[i],
                         i + 1)

\* Math.acos(dot / (len1 * len2)) as the angle of (dot, |cross|), in [0, pi]
AngleOf(dot, cross) ==
    IF cross = 0 THEN (IF dot > 0 THEN 0 ELSE PiMicro)
    ELSE IF dot = 0 THEN PiMicro \div 2
    ELSE IF dot < 0
         THEN LET s == ScaleUp(cross, -dot)
              IN  Cordic(s[1], s[2], PiMicro \div 2, 1)
         ELSE LET s == ScaleUp(dot, cross)
              IN  Cordic(s[1], s[2], 0, 1)

\* the turn of the polyline at index, measured radius points before and after
computeCurvature(points, index, radius) ==
    LET n == Len(points)
        curr == points[index + 1]
        prev == points[((index - radius + n) % n) + 1]
        next == points[((index + radius) % n) + 1]
        v1x == curr[1] - prev[1]
        v1y == curr[2] - prev[2]
        v2x == next[1] - curr[1]
        v2y == next[2] - curr[2]
    IN  IF n < 3 THEN PiMicro
        ELSE IF (v1x = 0 /\ v1y = 0) \/ (v2x = 0 /\ v2y = 0) THEN PiMicro
        ELSE AngleOf(v1x * v2x + v1y * v2y, Abs(v1x * v2y - v1y * v2x))

\* angleThreshold degrees in microradians
ThresholdOf(angleThreshold) == (angleThreshold * PiMicro) \div 180

StrictRadii == <<4, 6>>

\* the corners one radius contributes: below the threshold and, within the
\* tolerance, not above the angle of any neighbour up to checkRange away
StrictCornersAt(points, radius, angleThreshold, minDistance) ==
    LET n == Len(points)
        angles == Arr([k \in 1..n |-> computeCurvature(points, k - 1, radius)])
        checkRange == Min2(2, minDistance)
    IN  IF n < radius * 2 + 1 THEN {}
        ELSE {i \in 0..(n - 1) :
                /\ angles[i + 1] < ThresholdOf(angleThreshold)
                /\ \A j \in 1..checkRange :
                      /\ angles[i + 1] <=
                            angles[((i - j + n) % n) + 1] + LocalMinTolerance
                      /\ angles[i + 1] <=
                            angles[((i + j) % n) + 1] + LocalMinTolerance}

\* a set of indices as the ascending list
RECURSIVE SortedIndices(_)
SortedIndices(s) ==
    IF s = {} THEN <<>>
    ELSE LET least == CHOOSE a \in s : \A b \in s : a <= b
         IN  <<least>> \o SortedIndices(s \ {least})

detectCornersVTracerStrict(points, angleThreshold, minDistance) ==
    IF Len(points) < 6 THEN <<>>
    ELSE SortedIndices(
             UNION {StrictCornersAt(points, StrictRadii[r], angleThreshold,
                                    minDistance) : r \in DOMAIN StrictRadii})

\* the cyclic index distance of i and j on a closed list of n points
CyclicDistance(i, j, n) == Min2(Abs(i - j), n - Abs(i - j))

\* the candidates in order of angle (stable), each kept unless it is closer
\* than minDistance to one kept before
RECURSIVE SuppressClose(_, _, _, _)
SuppressClose(candidates, corners, n, minDistance) ==
    IF candidates = <<>> THEN corners
    ELSE LET c == Head(candidates)
             tooClose == \E e \in corners :
                             CyclicDistance(c, e, n) < minDistance
         IN  SuppressClose(Tail(candidates),
                           IF tooClose THEN corners ELSE corners \cup {c},
                           n, minDistance)

\* indices ordered by angle, ties in index order (Array.prototype.sort is
\* stable)
RECURSIVE SortByAngle(_, _)
SortByAngle(s, angles) ==
    IF s = {} THEN <<>>
    ELSE LET first == CHOOSE a \in s : \A b \in s :
                          \/ angles[a + 1] < angles[b + 1]
                          \/ angles[a + 1] = angles[b + 1] /\ a <= b
         IN  <<first>> \o SortByAngle(s \ {first}, angles)

detectCornersVTracer(points, angleThreshold, minDistance) ==
    LET n == Len(points)
        angles == Arr([k \in 1..n |-> computeCurvature(points, k - 1, 3)])
        candidates ==
            {i \in 0..(n - 1) :
                /\ angles[i + 1] < ThresholdOf(angleThreshold)
                /\ \A j \in 1..minDistance :
                      /\ angles[i + 1] <= angles[((i - j + n) % n) + 1]
                      /\ angles[i + 1] <= angles[((i + j) % n) + 1]}
    IN  IF n < 6 THEN <<>>
        ELSE SortedIndices(SuppressClose(SortByAngle(candidates, angles), {},
                                         n, minDistance))

\* the outline of a w by h rectangle, one point per pixel step, clockwise
\* from the origin
RectOutline(w, h) ==
    [k \in 1..w |-> <<(k - 1) * Scale, 0>>]
    \o [k \in 1..h |-> <<w * Scale, (k - 1) * Scale>>]
    \o [k \in 1..w |-> <<(w - k + 1) * Scale, h * Scale>>]
    \o [k \in 1..h |-> <<0, (h - k + 1) * Scale>>]

MaxOutlineSide == 5

CornerThresholds == {100, 130, 150}

CornerDistances == {1, 2, 3, 5}

CornerInputs(maxSide, thresholds, distances) ==
    {[points |-> RectOutline(w, h), angleThreshold |-> t, minDistance |-> d] :
        w \in 1..maxSide, h \in 1..maxSide, t \in thresholds, d \in distances}

InitCorners ==
    /\ pc = "outline"
    /\ input \in CornerInputs(MaxOutlineSide, CornerThresholds,
                              CornerDistances)
    /\ output = <<>>
    /\ PipelineIdle

DetectCorners ==
    /\ pc = "outline"
    /\ output' = [strict |-> detectCornersVTracerStrict(
                                 input.points, input.angleThreshold,
                                 input.minDistance),
                  single |-> detectCornersVTracer(
                                 input.points, input.angleThreshold,
                                 input.minDistance)]
    /\ pc' = "corners"
    /\ UNCHANGED <<input, pipelineVars>>

NextCorners == DetectCorners

SpecCorners == InitCorners /\ [][NextCorners]_vars

\* a list of indices ascending, without duplicates, any two at cyclic
\* distance minDistance or more on a closed list of n points
SortedApart(corners, n, minDistance) ==
    /\ \A a, b \in DOMAIN corners : a < b => corners[a] < corners[b]
    /\ \A a, b \in DOMAIN corners :
          a # b => CyclicDistance(corners[a], corners[b], n) >= minDistance

\* C26: the corner indices that detectCornersVTracerStrict returns are
\* sorted ascending without duplicates, and any two of them are at cyclic
\* index distance minDistance or more
C26_StrictCornersApart ==
    pc = "corners" =>
        SortedApart(output.strict, Len(input.points), input.minDistance)

\* the same statement for detectCornersVTracer, whose last loop drops the
\* candidates closer than minDistance to a corner already kept
SingleCornersApart ==
    pc = "corners" =>
        SortedApart(output.single, Len(input.points), input.minDistance)

\* what the strict detector does keep: its list is sorted without duplicates
StrictCornersSorted ==
    pc = "corners" =>
        \A a, b \in DOMAIN output.strict :
            a < b => output.strict[a] < output.strict[b]

-----------------------------------------------------------------------------
(* color-quantize.js: filterEdgeColors on its own: lists of distinct
   colours, one weighted sample on each colour *)

\* black and white, two colours near black on the grey axis, mid grey, a
\* dark red, and two colours beside the segment from black to the red
EdgeColours ==
    {<<0, 0, 0>>, <<255, 255, 255>>, <<30, 30, 30>>, <<20, 20, 20>>,
     <<128, 128, 128>>, <<100, 0, 0>>, <<20, 55, 0>>, <<20, 45, 0>>}

EdgeLengths == {2, 3, 4}

\* the weights of the samples on the colours: light or heavy, or none at all
EdgeWeights == [1..4 -> {1, 200}] \cup {[k \in 1..4 |-> 0]}

EdgeMaxColors == {4, 16}

\* the lists of len distinct colours
RECURSIVE DistinctLists(_, _)
DistinctLists(colours, len) ==
    IF len = 0 THEN {<<>>}
    ELSE {<<c>> \o l : c \in colours, l \in DistinctLists(colours, len - 1)}

EdgeInputs(colours, lengths, weights, maxes) ==
    {[colors |-> cs,
      weightedColors |-> [k \in 1..Len(cs) |->
                             [color |-> cs[k], weight |-> ws[k]]],
      maxColors |-> mc] :
        cs \in {l \in UNION {DistinctLists(colours, n) : n \in lengths} :
                   \A a, b \in DOMAIN l : a # b => l[a] # l[b]},
        ws \in weights, mc \in maxes}

InitEdge ==
    /\ pc = "colours"
    /\ input \in EdgeInputs(EdgeColours, EdgeLengths, EdgeWeights,
                            EdgeMaxColors)
    /\ output = <<>>
    /\ PipelineIdle

FilterEdge ==
    /\ pc = "colours"
    /\ output' = filterEdgeColors(input.colors, input.weightedColors,
                                  input.maxColors)
    /\ pc' = "filtered colours"
    /\ UNCHANGED <<input, pipelineVars>>

NextEdge == FilterEdge

SpecEdge == InitEdge /\ [][NextEdge]_vars

\* s can be had from t by dropping entries of t
RECURSIVE IsSubList(_, _)
IsSubList(s, t) ==
    IF s = <<>> THEN TRUE
    ELSE IF t = <<>> THEN FALSE
    ELSE IF Head(s) = Head(t) THEN IsSubList(Tail(s), Tail(t))
    ELSE IsSubList(s, Tail(t))

\* every entry of s is an entry of t and s repeats none
IsSelection(s, t) ==
    /\ \A p \in DOMAIN s : \E q \in DOMAIN t : s[p] = t[q]
    /\ \A p, q \in DOMAIN s : p # q => s[p] # s[q]

\* the main colours of the input: the whole input when the filter returns
\* at once (two colours or fewer, no weight at all)
MainColours ==
    LET cw == EdgeColorWeights(input.colors, input.weightedColors)
        split == EdgeFilterSplit(input.colors, cw, input.maxColors)
    IN  IF Len(input.colors) <= 2 \/ SumSeq(cw) = 0
        THEN {input.colors[k] : k \in DOMAIN input.colors}
        ELSE {input.colors[split.mains[m]] : m \in DOMAIN split.mains}

\* c lies within distance 60 of a main colour
NearMain(c) == \E m \in MainColours : colorDistSq(c, m) <= 60 * 60

\* c projects onto the segment from A to B at t in [0.1, 0.9], less than 50
\* away from it: t = dot / |AB|^2, distance^2 = |AC|^2 - dot^2 / |AB|^2,
\* which is below 2500 when (|AC|^2 - 2500) * |AB|^2 < dot^2
BetweenMains(c) ==
    \E A, B \in MainColours :
        LET ABsq == colorDistSq(B, A)
            ACsq == colorDistSq(c, A)
            dot == (c[1] - A[1]) * (B[1] - A[1])
                   + (c[2] - A[2]) * (B[2] - A[2])
                   + (c[3] - A[3]) * (B[3] - A[3])
        IN  /\ A # B
            /\ 10 * dot >= ABsq
            /\ 10 * dot <= 9 * ABsq
            /\ \/ ACsq < 2500
               \/ ProdLess(ACsq - 2500, ABsq, dot, dot)

Removed == {input.colors[k] : k \in DOMAIN input.colors}
           \ {output[p] : p \in DOMAIN output}

\* what the filter keeps and what it may remove
KeepsMains ==
    /\ \A m \in MainColours : \E p \in DOMAIN output : output[p] = m
    /\ Len(input.colors) > 2 => Len(output) >= 2
    /\ \A c \in Removed :
          c \notin MainColours /\ NearMain(c) /\ BetweenMains(c)

-----------------------------------------------------------------------------
(* connected-components.js: labelConnectedComponents on small bitmaps *)

\* the final label of every pixel: the roots numbered from 1 in the order in
\* which the scan first meets them
FinalLabels(data, root) ==
    LET fg == {i \in 1..Len(data) : data[i] # 0}
        first(r) == CHOOSE i \in fg :
                        /\ root[i] = r
                        /\ \A j \in fg : root[j] = r => i <= j
        labelMap(r) == Cardinality({root[j] : j \in {k \in fg : k < first(r)}})
                       + 1
    IN  Arr([i \in 1..Len(data) |->
                IF i \in fg THEN labelMap(root[i]) ELSE 0])

\* regions[l]: the pixels with label l in scan order, as <<x, y>>
RECURSIVE RegionOf(_, _, _, _)
RegionOf(labels, width, l, i) ==
    IF i > Len(labels) THEN <<>>
    ELSE (IF labels[i] = l /\ l > 0
          THEN <<<<(i - 1) % width, (i - 1) \div width>>>> ELSE <<>>)
         \o RegionOf(labels, width, l, i + 1)

labelConnectedComponents(bitmap) ==
    LET data == bitmap.data
        width == bitmap.width
        n == bitmap.width * bitmap.height
        numbered(labels, finalLabel) ==
            [labels |-> labels,
             numRegions |-> finalLabel,
             regions |-> [l \in 0..finalLabel |->
                             RegionOf(labels, width, l, 1)],
             width |-> width, height |-> bitmap.height]
        counted(root) ==
            numbered(FinalLabels(data, root),
                     Cardinality({root[i] : i \in {k \in 1..n : data[k] # 0}}))
        rooted(lp) ==
            counted(Arr([i \in 1..n |-> IF data[i] # 0
                                        THEN UFFind(lp.parent, lp.labels[i])
                                        ELSE 0]))
    IN  rooted(LabelPass(data, width, 1, n,
                         [labels |-> <<>>, parent |-> <<>>]))

LabelSizes == {<<3, 3>>, <<4, 2>>, <<2, 3>>, <<1, 1>>}

\* a comb, whose teeth get a label each before the last row joins them, and
\* a spiral
LabelRows ==
    {<<<<1, 0, 1, 0, 1>>, <<1, 0, 1, 0, 1>>, <<1, 1, 1, 1, 1>>>>,
     <<<<1, 1, 1, 1, 1>>, <<0, 0, 0, 0, 1>>, <<1, 1, 1, 0, 1>>,
       <<1, 0, 0, 0, 1>>, <<1, 1, 1, 1, 1>>>>}

LabelBitmaps(sizes, rowsSet) ==
    UNION {{[width |-> s[1], height |-> s[2], data |-> d] :
               d \in [1..(s[1] * s[2]) -> {0, 1}]} : s \in sizes}
    \cup {[width |-> b.width, height |-> b.height, data |-> b.data] :
             b \in {BitmapOfRows(rows) : rows \in rowsSet}}

InitLabels ==
    /\ pc = "bitmap"
    /\ input \in LabelBitmaps(LabelSizes, LabelRows)
    /\ output = <<>>
    /\ PipelineIdle

LabelComponents ==
    /\ pc = "bitmap"
    /\ output' = labelConnectedComponents(input)
    /\ pc' = "labelled"
    /\ UNCHANGED <<input, pipelineVars>>

NextLabels == LabelComponents

SpecLabels == InitLabels /\ [][NextLabels]_vars

\* pixel i (from 1) of the input as <<x, y>>
PixelAt(i) == <<(i - 1) % input.width, (i - 1) \div input.width>>

ForegroundPixels == {i \in 1..Len(input.data) : input.data[i] = 1}

\* i and j are joined by a 4-connected path of foreground pixels
PathJoined(i, j) ==
    PixelAt(j) \in Joined({PixelAt(i)},
                          {PixelAt(k) : k \in ForegroundPixels}, FALSE)

\* C28: labelConnectedComponents labels every background pixel 0 and every
\* foreground pixel within 1..numRegions, two foreground pixels alike
\* exactly when a 4-connected path of foreground pixels joins them; every
\* label of 1..numRegions is used and regions[l] lists exactly the pixels
\* labelled l
C28_LabelsAreComponents ==
    pc = "labelled" =>
        /\ \A i \in 1..Len(input.data) :
              IF input.data[i] = 0 THEN output.labels[i] = 0
              ELSE output.labels[i] \in 1..output.numRegions
        /\ \A i, j \in ForegroundPixels :
              (output.labels[i] = output.labels[j]) <=> PathJoined(i, j)
        /\ \A l \in 1..output.numRegions :
              /\ \E i \in ForegroundPixels : output.labels[i] = l
              /\ {output.regions[l][k] : k \in DOMAIN output.regions[l]}
                 = {PixelAt(i) : i \in {k \in ForegroundPixels :
                                           output.labels[k] = l}}
              /\ Len(output.regions[l])
                 = Cardinality({k \in ForegroundPixels : output.labels[k] = l})

\* two regions, one of them made of pixels that the first pass had given
\* different provisional labels
C28_ProvisionalLabelsJoined ==
    /\ pc = "labelled"
    /\ output.numRegions = 2
    /\ LET lp == LabelPass(input.data, input.width, 1, Len(input.data),
                           [labels |-> <<>>, parent |-> <<>>])
       IN  \E i, j \in ForegroundPixels :
              /\ lp.labels[i] # lp.labels[j]
              /\ output.labels[i] = output.labels[j]

-----------------------------------------------------------------------------
(* utils.js: loadCdnLibs step by step, for calls that overlap. A call runs
   to its await in one step; the load and error events of the script
   elements and the continuation of each call are steps of their own. *)

InitCdn ==
    /\ pc = "cdn"
    /\ input \in [document : BOOLEAN]
    /\ output = <<>>
    /\ PipelineIdle

cdnUnchanged ==
    <<pc, presetName, options, image, weightedColors, centers, palette,
      currentPalette, changed, aliased, pixelColorMap, otsuThreshold,
      colorIdx, layers, result, fitCalls, input, output>>

\* call c of loadCdnLibs up to its await. loadScript resolves at once for a
\* url whose script element is in the document already, and appends a new
\* element, with the call's onload and onerror, for any other url
CallLoadCdnLibs(c) ==
    /\ pc = "cdn"
    /\ calls[c].at = "idle"
    /\ IF libsLoaded
       THEN /\ calls' = [calls EXCEPT ![c].at = "returned"]
            /\ UNCHANGED <<libsLoaded, scripts>>
       ELSE IF ~input.document
       THEN /\ libsLoaded' = TRUE
            /\ calls' = [calls EXCEPT ![c].at = "returned"]
            /\ UNCHANGED scripts
       ELSE /\ scripts' = [u \in CdnUrls |->
                              IF scripts[u] = "absent" THEN "loading"
                              ELSE scripts[u]]
            /\ calls' = [calls EXCEPT
                            ![c] = [at |-> "awaiting",
                                    pending |-> {u \in CdnUrls :
                                                    scripts[u] = "absent"},
                                    rejected |-> FALSE]]
            /\ UNCHANGED libsLoaded
    /\ UNCHANGED <<fitCurveFn, cdnUnchanged>>

\* the script of url u has loaded: onload resolves the promise of the call
\* that appended the element
ScriptOnload(u) ==
    /\ pc = "cdn"
    /\ scripts[u] = "loading"
    /\ scripts' = [scripts EXCEPT ![u] = "loaded"]
    /\ calls' = [c \in DOMAIN calls |->
                    [calls[c] EXCEPT !.pending = @ \ {u}]]
    /\ fitCurveFn' = (fitCurveFn \/ u = "fitCurve")
    /\ UNCHANGED <<libsLoaded, cdnUnchanged>>

\* the script of url u has failed: onerror rejects that promise
ScriptOnerror(u) ==
    /\ pc = "cdn"
    /\ scripts[u] = "loading"
    /\ scripts' = [scripts EXCEPT ![u] = "failed"]
    /\ calls' = [c \in DOMAIN calls |->
                    IF u \in calls[c].pending
                    THEN [calls[c] EXCEPT !.pending = @ \ {u},
                                          !.rejected = TRUE]
                    ELSE calls[c]]
    /\ UNCHANGED <<libsLoaded, fitCurveFn, cdnUnchanged>>

\* call c after its await: Promise.all has resolved (nothing pending) and
\* the flag is set, or it has rejected and the catch leaves the flag alone
ResumeLoadCdnLibs(c) ==
    /\ pc = "cdn"
    /\ calls[c].at = "awaiting"
    /\ calls[c].rejected \/ calls[c].pending = {}
    /\ libsLoaded' = IF calls[c].rejected THEN libsLoaded ELSE TRUE
    /\ calls' = [calls EXCEPT ![c].at = "returned"]
    /\ UNCHANGED <<scripts, fitCurveFn, cdnUnchanged>>

NextCdn ==
    \/ \E c \in 1..MaxCalls : CallLoadCdnLibs(c)
    \/ \E u \in CdnUrls : ScriptOnload(u)
    \/ \E u \in CdnUrls : ScriptOnerror(u)
    \/ \E c \in 1..MaxCalls : ResumeLoadCdnLibs(c)

SpecCdn == InitCdn /\ [][NextCdn]_vars

\* C29: libsLoaded is true only when every CDN script has finished loading
\* or there is no document, also when calls of loadCdnLibs overlap and when
\* a call follows a failed load
C29_FlagMeansLoaded ==
    (pc = "cdn" /\ libsLoaded) =>
        \/ ~input.document
        \/ \A u \in CdnUrls : scripts[u] = "loaded"

\* once the flag is true a call returns and changes neither the flag nor the
\* script elements
LaterCallsReturn ==
    [][\A c \in 1..MaxCalls :
          (libsLoaded /\ CallLoadCdnLibs(c)) =>
              /\ calls'[c].at = "returned"
              /\ UNCHANGED <<libsLoaded, scripts>>]_vars

\* the flag did get set by a second call while a script was still loading
FlagSetWhileLoading ==
    /\ pc = "cdn"
    /\ libsLoaded
    /\ \E u \in CdnUrls : scripts[u] = "loading"

\* the flag did get set by a call that followed a failed load
FlagSetAfterFailure ==
    /\ pc = "cdn"
    /\ libsLoaded
    /\ \E u \in CdnUrls : scripts[u] = "failed"

-----------------------------------------------------------------------------
(* binary-image.js: createBinaryBitmapFromMap on its own, for every palette
   index of a small map and for 0, 1 and 2 rounds of dilation; no image and
   no palette are passed, as by the defaults of the function *)

DilateCounts == {0, 1, 2}

BitmapMapSizes == {<<3, 3, {0, 1, 255}>>, <<4, 2, {0, 1, 255}>>}

\* the palette indices of a map: its values other than the transparent mark
PaletteIndices(map) == {map[p] : p \in DOMAIN map} \ {TransparentMark}

InitLayerBitmaps ==
    /\ pc = "map"
    /\ \E m \in MapsOf(BitmapMapSizes), d \in DilateCounts :
          input = [map |-> m.map, width |-> m.width, height |-> m.height,
                   dilatePixels |-> d]
    /\ output = <<>>
    /\ PipelineIdle

\* the final bitmap of every palette index
LayerBitmaps ==
    /\ pc = "map"
    /\ output' = [i \in PaletteIndices(input.map) |->
                     createBinaryBitmapFromMap(
                         input.map, i, input.width, input.height, 0,
                         input.dilatePixels, <<>>, <<>>).data]
    /\ pc' = "bitmaps"
    /\ UNCHANGED <<input, pipelineVars>>

NextLayerBitmaps == LayerBitmaps

SpecLayerBitmaps == InitLayerBitmaps /\ [][NextLayerBitmaps]_vars

\* C30: without dilation the bitmap of palette index i is foreground only
\* where the map holds i, so no pixel is foreground in two layers and no
\* transparent pixel in any; with dilation, still no transparent pixel is
\* foreground in any layer
C30_ForegroundWithinMap ==
    pc = "bitmaps" =>
        /\ input.dilatePixels = 0 =>
              /\ \A i \in DOMAIN output : \A p \in DOMAIN input.map :
                    output[i][p] = 1 => input.map[p] = i
              /\ \A i, j \in DOMAIN output : \A p \in DOMAIN input.map :
                    (output[i][p] = 1 /\ output[j][p] = 1) => i = j
        /\ \A i \in DOMAIN output : \A p \in DOMAIN input.map :
              output[i][p] = 1 => input.map[p] # TransparentMark

\* dilation has grown a layer into a pixel of another palette index, next to
\* a transparent pixel that it left alone
DilatedBesideTransparent ==
    /\ pc = "bitmaps"
    /\ input.dilatePixels > 0
    /\ \E i \in DOMAIN output : \E p, q \in DOMAIN input.map :
          /\ output[i][p] = 1
          /\ input.map[p] # i
          /\ q \in Neighbours4(p, input.width, input.height)
          /\ input.map[q] = TransparentMark
          /\ output[i][q] = 0

\* without dilation two layers have foreground, one of them beside a
\* transparent pixel
C30_UndilatedLayersApart ==
    /\ pc = "bitmaps"
    /\ input.dilatePixels = 0
    /\ \E i, j \in DOMAIN output : \E p, q, r \in DOMAIN input.map :
          /\ i # j
          /\ output[i][p] = 1
          /\ output[j][r] = 1
          /\ q \in Neighbours4(p, input.width, input.height)
          /\ input.map[q] = TransparentMark
=============================================================================
